---- MODULE Spec2Model ----
(***************************************************************************)
(* LSB steganography tool: the BMP core (validate_bmp_format,              *)
(* calculate_message_capacity, embed_message, extract_message) and the PNG *)
(* and JPEG format handlers of formats.c, modelled on byte sequences.      *)
(*                                                                         *)
(* A stream is a sequence of bytes (0..255) with a 0-based read position;  *)
(* the byte at offset o of stream f is f[o + 1].  The host is taken to be  *)
(* little-endian with 64-bit long and size_t (the gcc build of the         *)
(* Makefile on x86-64); writes to the output stream are taken to succeed.  *)
(***************************************************************************)
EXTENDS Integers, Sequences, FiniteSets, TLC

VARIABLES
    input,      \* bytes of the source container file when it was opened
    pos,        \* read position of the input stream (0-based offset)
    output,     \* bytes written to the output stream by the last embed
    message,    \* message argument of the last embed (without terminator)
    buffer,     \* bytes the last extract stored, in index order from 0
    max_len,    \* max_len argument of the last extract
    rc,         \* return value of the last operation
    op,         \* name of the last operation
    capacity,   \* value returned by the last capacity call
    carriers,   \* offsets whose LSB the last embed wrote / extract read
    input_file, \* name of the source file (character codes)
    output_file,\* name of the output file (character codes)
    handler,    \* name of the handler that was looked up or that served
    source,     \* bytes the source file holds on disk now
    output_opened, \* TRUE once fopen(output_file, "wb") has been called
    passes      \* parity of the chunk-loop passes a running png_extract has made

\* the source file as opened, its name, and what names and serves it
fileVars == <<input, input_file, output_file, handler, source, output_opened>>

\* everything an operation other than a running png_extract leaves alone
idleVars == <<fileVars, passes>>

vars == <<input, pos, output, message, buffer, max_len, rc, op, capacity, carriers,
          input_file, output_file, handler, source, output_opened, passes>>

(***************************************************************************)
(* Program constants                                                       *)
(***************************************************************************)
BMP_HEADER_SIZE == 54
BMP_SIGNATURE == 19778
STEG_SUCCESS == 0
STEG_FILE_ERROR == -1
STEG_INVALID_BMP == -2
STEG_INSUFFICIENT_CAPACITY == -3
\* sizeof(bmp_file_header_t), sizeof(bmp_info_header_t): packed structs
FILE_HEADER_SIZE == 14
INFO_HEADER_SIZE == 40
\* offsets of bits_per_pixel and compression inside bmp_info_header_t
BPP_OFFSET == 14
COMPRESSION_OFFSET == 16

(***************************************************************************)
(* Bounds of the model                                                     *)
(***************************************************************************)
MaxPixels == 24     \* longest pixel region of a BMP container
MaxMsgLen == 3      \* longest message
MaxBufLen == 4      \* largest max_len handed to extract
MaxIdat == 24       \* most IDAT data bytes of a well-formed PNG container
MaxChunkSteps == 12 \* chunk / segment headers one extract call may read

(***************************************************************************)
(* Bytes and bits                                                          *)
(***************************************************************************)
Byte == 0..255

Min(a, b) == IF a < b THEN a ELSE b
Max(a, b) == IF a > b THEN a ELSE b

Pow2(n) == 2^n

\* (c >> k) & 1 for a char c given by its byte value
BitOf(c, k) == (c \div Pow2(k)) % 2

\* (b & 0xFE) | bit
SetLSB_KeepLow2(b, bit) == (b - (b % 4)) + bit
SetLSB(b, bit) == (b - (b % 2)) + bit

\* size_t and unsigned long hold 64 bits.  TLC integers hold 32, so an
\* unsigned 64-bit value x is written as x itself below 2^31 and as x - 2^64
\* (a negative number) from 2^64 - 2^31 up; no value in between arises from
\* the lengths and 32-bit fields of the model.  Sums and differences are
\* then exact, a conversion to long is the identity, and the unsigned
\* comparisons are the two below.
ULess(a, b) == IF (a < 0) = (b < 0) THEN a < b ELSE b < 0
UGreater(a, b) == ULess(b, a)

\* 2^61: the quotient (2^64 + a) / 8 of a wrapped size_t is 2^61 + a \div 8.
\* TLC cannot hold 2^61; 2^29 stands for it, above every message length.
WrappedDiv8Base == 536870912
UDiv8(a) == IF a >= 0 THEN a \div 8 ELSE WrappedDiv8Base + (a \div 8)

\* number of bytes fread can still deliver at position p of stream f
Avail(f, p) == IF p >= Len(f) THEN 0 ELSE Len(f) - p

\* little-endian fields read through the packed header structs
LE16(f, o) == f[o + 1] + 256 * f[o + 2]
LE32(f, o) == f[o + 1] + 256 * f[o + 2] + 65536 * f[o + 3] + 16777216 * f[o + 4]

\* message[i] of a C string: the bytes of the message, then the terminator
CharAt(m, i) == IF i < Len(m) THEN m[i + 1] ELSE 0

\* the C string held by a buffer: the bytes before the first zero byte
CString(b) ==
    LET zs == {i \in 1..Len(b) : b[i] = 0}
    IN  IF zs = {} THEN b
        ELSE SubSeq(b, 1, (CHOOSE i \in zs : \A j \in zs : i <= j) - 1)


(***************************************************************************)
(* BMP core (steg.c)                                                       *)
(***************************************************************************)

\* validate_bmp_format: reads at the current position, never rewinds.
\* A short fread leaves the stream at end of file.
validate_bmp_format_NoCompressionCheck(f, p) ==
    IF Avail(f, p) < FILE_HEADER_SIZE
    THEN [rc |-> STEG_FILE_ERROR, pos |-> Max(p, Len(f))]
    ELSE IF LE16(f, p) # BMP_SIGNATURE
    THEN [rc |-> STEG_INVALID_BMP, pos |-> p + FILE_HEADER_SIZE]
    ELSE IF Avail(f, p + FILE_HEADER_SIZE) < INFO_HEADER_SIZE
    THEN [rc |-> STEG_FILE_ERROR, pos |-> Len(f)]
    ELSE IF LE16(f, p + FILE_HEADER_SIZE + BPP_OFFSET) # 24
    THEN [rc |-> STEG_INVALID_BMP, pos |-> p + BMP_HEADER_SIZE]
    ELSE [rc |-> STEG_SUCCESS, pos |-> p + BMP_HEADER_SIZE]
validate_bmp_format(f, p) ==
    IF Avail(f, p) < FILE_HEADER_SIZE
    THEN [rc |-> STEG_FILE_ERROR, pos |-> Max(p, Len(f))]
    ELSE IF LE16(f, p) # BMP_SIGNATURE
    THEN [rc |-> STEG_INVALID_BMP, pos |-> p + FILE_HEADER_SIZE]
    ELSE IF Avail(f, p + FILE_HEADER_SIZE) < INFO_HEADER_SIZE
    THEN [rc |-> STEG_FILE_ERROR, pos |-> Len(f)]
    ELSE IF LE16(f, p + FILE_HEADER_SIZE + BPP_OFFSET) # 24
    THEN [rc |-> STEG_INVALID_BMP, pos |-> p + BMP_HEADER_SIZE]
    ELSE IF LE32(f, p + FILE_HEADER_SIZE + COMPRESSION_OFFSET) # 0
    THEN [rc |-> STEG_INVALID_BMP, pos |-> p + BMP_HEADER_SIZE]
    ELSE [rc |-> STEG_SUCCESS, pos |-> p + BMP_HEADER_SIZE]

\* calculate_message_capacity: size_t arithmetic, position restored.
calculate_message_capacity_RoundUp(f, p) ==
    [capacity |-> UDiv8(Len(f) - BMP_HEADER_SIZE + 7), pos |-> p]
calculate_message_capacity_CountsHeader(f, p) ==
    [capacity |-> UDiv8(Len(f)), pos |-> p]
calculate_message_capacity(f, p) ==
    LET file_size == Len(f)
        available_bytes == file_size - BMP_HEADER_SIZE
    IN  [capacity |-> UDiv8(available_bytes), pos |-> p]

\* read_bmp_header: rewind, then validate.
read_bmp_header(f) == validate_bmp_format(f, 0)

\* write_bmp_header: rewind, read 54 bytes, write them.
write_bmp_header(f) ==
    IF Avail(f, 0) < BMP_HEADER_SIZE
    THEN [rc |-> STEG_FILE_ERROR, pos |-> Len(f), out |-> <<>>]
    ELSE [rc |-> STEG_SUCCESS, pos |-> BMP_HEADER_SIZE,
          out |-> SubSeq(f, 1, BMP_HEADER_SIZE)]

\* bit written for the k-th carrier byte of embed_message: character
\* k / 8 of the message (terminator included), bit_pos running 7 down to 0.
EmbedBit_LsbFirst(m, k) == BitOf(CharAt(m, k \div 8), k % 8)
EmbedBit(m, k) == BitOf(CharAt(m, k \div 8), 7 - (k % 8))

\* The two loops of embed_message (lines 331-360): one carrier byte per
\* message bit, then the remaining bytes copied through.
RECURSIVE EmbedLoop(_, _, _, _, _)
EmbedLoop(f, m, k, p, out) ==
    IF k = 8 * (Len(m) + 1)
    THEN [rc |-> STEG_SUCCESS, pos |-> Max(p, Len(f)),
          out |-> out \o SubSeq(f, p + 1, Len(f)),
          carriers |-> [j \in 1..k |-> BMP_HEADER_SIZE + j - 1]]
    ELSE IF Avail(f, p) < 1
    THEN [rc |-> STEG_FILE_ERROR, pos |-> p, out |-> out,
          carriers |-> [j \in 1..k |-> BMP_HEADER_SIZE + j - 1]]
    ELSE EmbedLoop(f, m, k + 1, p + 1,
                   Append(out, SetLSB(f[p + 1], EmbedBit(m, k))))

\* "message_len + 1 > capacity" refuses the message (line 318)
MessageFits_NoTerminator(m, c) == ~(Len(m) > c)
MessageFits(m, c) == ~(Len(m) + 1 > c)

embed_message(m, f) ==
    LET v == read_bmp_header(f)
        c == calculate_message_capacity(f, v.pos).capacity
        h == write_bmp_header(f)
    IN  IF v.rc # STEG_SUCCESS
        THEN [rc |-> v.rc, pos |-> v.pos, out |-> <<>>, carriers |-> <<>>]
        ELSE IF ~MessageFits(m, c)
        THEN [rc |-> STEG_INSUFFICIENT_CAPACITY, pos |-> v.pos, out |-> <<>>,
              carriers |-> <<>>]
        ELSE IF h.rc # STEG_SUCCESS
        THEN [rc |-> STEG_FILE_ERROR, pos |-> h.pos, out |-> h.out,
              carriers |-> <<>>]
        ELSE EmbedLoop(f, m, 0, BMP_HEADER_SIZE, h.out)

\* character rebuilt from the 8 carrier bytes at offset p: the byte read
\* for bit_pos (7 down to 0) is OR-ed in at bit_pos.
ExtractedChar(f, p) ==
    LET Bits(j) == (f[p + j + 1] % 2) * Pow2(7 - j)
    IN  Bits(0) + Bits(1) + Bits(2) + Bits(3) + Bits(4) + Bits(5) + Bits(6) + Bits(7)

\* The loop of extract_message (lines 383-410).
RECURSIVE ExtractLoop(_, _, _, _)
ExtractLoop(f, ml, p, buf) ==
    IF ~ULess(Len(buf), ml - 1)
    THEN [rc |-> STEG_SUCCESS, pos |-> p, buf |-> Append(buf, 0)]
    ELSE IF Avail(f, p) < 8
    THEN [rc |-> STEG_FILE_ERROR, pos |-> Max(p, Len(f)), buf |-> buf]
    ELSE LET c == ExtractedChar(f, p)
         IN  IF c = 0
             THEN [rc |-> STEG_SUCCESS, pos |-> p + 8,
                   buf |-> Append(Append(buf, c), 0)]
             ELSE ExtractLoop(f, ml, p + 8, Append(buf, c))

extract_message(ml, f, p) ==
    LET v == read_bmp_header(f)
    IN  IF ml = 0
        THEN [rc |-> STEG_FILE_ERROR, pos |-> p, buf |-> <<>>]
        ELSE IF v.rc # STEG_SUCCESS
        THEN [rc |-> v.rc, pos |-> v.pos, buf |-> <<>>]
        ELSE ExtractLoop(f, ml, BMP_HEADER_SIZE, <<>>)


(***************************************************************************)
(* BMP containers and messages the model feeds to the code                 *)
(***************************************************************************)

\* A 54-byte header: signature bytes s0 s1, bits_per_pixel low/high byte
\* b0 b1, compression bytes c0 (lowest) and c3 (highest), image width w.
BmpHeader(s0, s1, b0, b1, c0, c3, w) ==
    [i \in 1..BMP_HEADER_SIZE |->
        CASE i = 1 -> s0
          [] i = 2 -> s1
          [] i = 11 -> BMP_HEADER_SIZE
          [] i = 15 -> INFO_HEADER_SIZE
          [] i = 19 -> w
          [] i = 23 -> 1
          [] i = 27 -> 1
          [] i = 29 -> b0
          [] i = 30 -> b1
          [] i = 31 -> c0
          [] i = 34 -> c3
          [] OTHER -> 0]

ValidBmpHeader(w) == BmpHeader(66, 77, 24, 0, 0, 0, w)

BmpHeaders ==
    { BmpHeader(s[1], s[2], b[1], b[2], c[1], c[2], 1) :
        s \in {<<66, 77>>, <<77, 66>>, <<66, 0>>},
        b \in {<<24, 0>>, <<32, 0>>, <<24, 1>>},
        c \in {<<0, 0>>, <<1, 0>>, <<0, 1>>} }
    \cup { ValidBmpHeader(w) : w \in {1, 100} }

\* pixel regions: n bytes repeating a short pattern
PixelPatterns == { <<0>>, <<255>>, <<1, 254>>, <<165, 60, 127>> }

Pixels(pat, n) == [i \in 1..n |-> pat[((i - 1) % Len(pat)) + 1]]

\* valid headers over every pixel region; the other headers over a few
BmpContainers ==
    { ValidBmpHeader(w) \o Pixels(pat, n) :
        w \in {1, 100}, pat \in PixelPatterns, n \in 0..MaxPixels }
    \cup { h \o Pixels(<<165, 60, 127>>, n) : h \in BmpHeaders, n \in {0, 8, MaxPixels} }

\* streams cut short inside the header
TruncatedBmps ==
    { SubSeq(h, 1, n) : h \in BmpHeaders, n \in {0, 1, 13, 14, 15, 53} }

\* messages: C strings, so no zero byte; one byte has its top bit set
MsgBytes == {65, 178}

RECURSIVE SeqsUpTo(_, _)
SeqsUpTo(S, n) ==
    IF n = 0 THEN {<<>>}
    ELSE LET shorter == SeqsUpTo(S, n - 1)
         IN  shorter \cup {Append(q, x) : q \in {r \in shorter : Len(r) = n - 1}, x \in S}

Messages == SeqsUpTo(MsgBytes, MaxMsgLen)

MaxLens == 0..MaxBufLen

(***************************************************************************)
(* Operations on a BMP container                                           *)
(***************************************************************************)
InitWith(containers) ==
    /\ input \in containers
    /\ pos = 0
    /\ output = <<>>
    /\ message = <<>>
    /\ buffer = <<>>
    /\ max_len = 0
    /\ rc = STEG_SUCCESS
    /\ op = "open"
    /\ capacity = 0
    /\ carriers = <<>>
    /\ input_file = <<>>
    /\ output_file = <<>>
    /\ output_opened = FALSE
    /\ passes = 0
    /\ handler = "none"
    /\ source = input

InitBMP == InitWith(BmpContainers \cup TruncatedBmps)

\* One stream serves one embed or extract; validation and the capacity
\* query may precede it (steg_cli.c main, lines 116-226).
StreamOpen == op \in {"open", "validate", "capacity"}

\* read_bmp_header(input), as the CLI and the demo call it
ReadBmpHeader ==
    LET r == read_bmp_header(input)
    IN  /\ StreamOpen
        /\ op' = "validate"
        /\ rc' = r.rc
        /\ pos' = r.pos
        /\ output' = <<>> /\ message' = <<>> /\ buffer' = <<>>
        /\ max_len' = 0 /\ capacity' = 0 /\ carriers' = <<>>
        /\ UNCHANGED idleVars

\* calculate_message_capacity(input)
CalculateCapacity ==
    LET r == calculate_message_capacity(input, pos)
    IN  /\ StreamOpen
        /\ op' = "capacity"
        /\ capacity' = r.capacity
        /\ pos' = r.pos
        /\ rc' = STEG_SUCCESS
        /\ output' = <<>> /\ message' = <<>> /\ buffer' = <<>>
        /\ max_len' = 0 /\ carriers' = <<>>
        /\ UNCHANGED idleVars

\* embed_message(m, input, output) into a fresh output stream
EmbedMessage ==
    /\ StreamOpen
    /\ \E m \in Messages :
        LET r == embed_message(m, input)
        IN  /\ op' = "embed"
            /\ message' = m
            /\ rc' = r.rc
            /\ pos' = r.pos
            /\ output' = r.out
            /\ carriers' = r.carriers
            /\ capacity' = calculate_message_capacity(input, pos).capacity
            /\ buffer' = <<>> /\ max_len' = 0
            /\ UNCHANGED idleVars

\* extract_message(buffer, ml, input)
ExtractMessage ==
    /\ StreamOpen
    /\ \E ml \in MaxLens :
        LET r == extract_message(ml, input, pos)
        IN  /\ op' = "extract"
            /\ max_len' = ml
            /\ rc' = r.rc
            /\ pos' = r.pos
            /\ buffer' = r.buf
            /\ output' = <<>> /\ message' = <<>>
            /\ capacity' = 0 /\ carriers' = <<>>
            /\ UNCHANGED idleVars

\* the demo's second half: the output of a successful embed is reopened
\* and extract_message is run on it
ExtractFromOutput ==
    /\ op = "embed"
    /\ rc = STEG_SUCCESS
    /\ \E ml \in MaxLens :
        LET r == extract_message(ml, output, 0)
        IN  /\ op' = "roundtrip"
            /\ max_len' = ml
            /\ rc' = r.rc
            /\ buffer' = r.buf
            /\ UNCHANGED <<idleVars, pos, output, message, capacity, carriers>>

NextBMP ==
    \/ ReadBmpHeader
    \/ CalculateCapacity
    \/ EmbedMessage
    \/ ExtractMessage
    \/ ExtractFromOutput

SpecBMP == InitBMP /\ [][NextBMP]_vars


(***************************************************************************)
(* Properties of the BMP core                                              *)
(***************************************************************************)

\* a valid 24-bit uncompressed BMP, read off the bytes of the stream
SignatureIsBM(f) == f[1] = 66 /\ f[2] = 77
BitsPerPixelIs24(f) == f[29] = 24 /\ f[30] = 0
CompressionIs0(f) == f[31] = 0 /\ f[32] = 0 /\ f[33] = 0 /\ f[34] = 0
IsValidBmp(f) ==
    Len(f) >= 54 /\ SignatureIsBM(f) /\ BitsPerPixelIs24(f) /\ CompressionIs0(f)

\* (S - 54) / 8 for a container of S >= 54 bytes
BmpCapacity(f) == (Len(f) - 54) \div 8

\* C1: BMP round trip.  For a valid BMP and a message m with
\* len(m)+1 <= capacity, embed_message succeeds, and extract_message run on
\* its output with max_len > len(m) succeeds and returns exactly m.
C1_BmpRoundTrip ==
    /\ (op = "embed" /\ IsValidBmp(input) /\ Len(message) + 1 <= BmpCapacity(input))
          => rc = STEG_SUCCESS
    /\ (op = "roundtrip" /\ Len(message) < max_len)
          => (rc = STEG_SUCCESS /\ CString(buffer) = message)

C1_Witness ==
    /\ op = "roundtrip"
    /\ Len(message) = 2
    /\ message[1] # message[2]
    /\ max_len = 3
    /\ rc = STEG_SUCCESS
    /\ CString(buffer) = message

C5_BmpEmbedFrame ==
    (op = "embed" /\ rc = STEG_SUCCESS) =>
        /\ Len(output) = Len(input)
        /\ SubSeq(output, 1, 54) = SubSeq(input, 1, 54)
        /\ \A i \in 1..Len(output) :
              /\ output[i] \div 2 = input[i] \div 2
              /\ output[i] # input[i] =>
                    (i > 54 /\ i <= 54 + 8 * (Len(message) + 1))

C5_Witness ==
    /\ op = "embed"
    /\ rc = STEG_SUCCESS
    /\ Len(message) = 1
    /\ Len(input) > 54 + 8 * (Len(message) + 1)
    /\ \E i \in 55..70 : output[i] # input[i] /\ input[i] >= 2

C7_BmpRejection ==
    (op = "validate" /\ Len(input) >= 54) =>
        IF SignatureIsBM(input) /\ BitsPerPixelIs24(input) /\ CompressionIs0(input)
        THEN rc = STEG_SUCCESS
        ELSE rc = STEG_INVALID_BMP

C7_Witness ==
    /\ op = "validate"
    /\ Len(input) >= 54
    /\ SignatureIsBM(input)
    /\ BitsPerPixelIs24(input)
    /\ input[34] = 1
    /\ rc = STEG_INVALID_BMP

(***************************************************************************)
(* PNG handler (formats.c)                                                 *)
(***************************************************************************)
PNG_SIGNATURE == <<137, 80, 78, 71, 13, 10, 26, 10>>
PNG_SIGNATURE_SIZE == 8
CHUNK_HEADER_SIZE == 8
CRC_SIZE == 4
\* bytes png_get_capacity reads after the signature
IHDR_READ_SIZE == 25
\* sizeof(buffer) in png_embed, png_extract, jpeg_embed, jpeg_extract
BUFFER_SIZE == 4096
PNG_MIN_CAPACITY == 10
PNG_MAX_CAPACITY == 1000000

IDAT == <<73, 68, 65, 84>>
IEND == <<73, 69, 78, 68>>
IHDR == <<73, 72, 68, 82>>
TEXT == <<116, 69, 88, 116>>

\* (b0 << 24) | (b1 << 16) | (b2 << 8) | b3 evaluated in int: a first byte
\* of 0x80 or more gives a negative int (gcc defines the shift into the sign
\* bit as the two's complement result).
Int32BE(f, o) ==
    (IF f[o + 1] >= 128 THEN f[o + 1] - 256 ELSE f[o + 1]) * 16777216
        + f[o + 2] * 65536 + f[o + 3] * 256 + f[o + 4]

\* png_validate: reads 8 bytes at the current position; rewinds on success
png_validate(f, p) ==
    IF Avail(f, p) < PNG_SIGNATURE_SIZE
    THEN [rc |-> 0, pos |-> Max(p, Len(f))]
    ELSE IF SubSeq(f, p + 1, p + PNG_SIGNATURE_SIZE) # PNG_SIGNATURE
    THEN [rc |-> 0, pos |-> p + PNG_SIGNATURE_SIZE]
    ELSE [rc |-> 1, pos |-> 0]

\* message bit png_embed and jpeg_embed write for message_pos k:
\* (message[k / 8] >> (k % 8)) & 1
MessageBit_MsbFirst(m, k) == BitOf(m[(k \div 8) + 1], 7 - (k % 8))
MessageBit(m, k) == BitOf(m[(k \div 8) + 1], k % 8)

\* the embedding for-loop over one block (lines 179-183): bytes are
\* overwritten while message_pos < message_len * 8
EmbedBlock(block, m, mpos) ==
    LET n == Min(Len(block), Max(0, 8 * Len(m) - mpos))
    IN  [i \in 1..Len(block) |->
            IF i <= n THEN SetLSB(block[i], MessageBit(m, mpos + i - 1))
            ELSE block[i]]

\* the data loop of one chunk in png_embed (lines 169-204); embed is TRUE
\* for an IDAT chunk.  clen is chunk_length (unsigned long).
RECURSIVE PngEmbedData(_, _, _, _, _, _, _, _, _)
PngEmbedData(f, m, p, clen, data_read, embed, out, mpos, car) ==
    IF ~ULess(data_read, clen)
    THEN [rc |-> STEG_SUCCESS, pos |-> p, out |-> out, mpos |-> mpos, car |-> car]
    ELSE LET to_read == IF UGreater(clen - data_read, BUFFER_SIZE)
                        THEN BUFFER_SIZE ELSE clen - data_read
         IN  IF Avail(f, p) < to_read
             THEN [rc |-> STEG_FILE_ERROR, pos |-> Max(p, Len(f)), out |-> out,
                   mpos |-> mpos, car |-> car]
             ELSE LET block == SubSeq(f, p + 1, p + to_read)
                      n == IF embed THEN Min(to_read, Max(0, 8 * Len(m) - mpos)) ELSE 0
                      written == IF embed THEN EmbedBlock(block, m, mpos) ELSE block
                  IN  PngEmbedData(f, m, p + to_read, clen, data_read + to_read, embed,
                                   out \o written, mpos + n,
                                   car \o [j \in 1..n |-> p + j - 1])

\* TRUE when png_embed embeds into a chunk of this type
EmbedsInto_AnyChunk(type) == type # IEND
EmbedsInto(type) == type = IDAT

\* the chunk loop of png_embed (lines 154-219)
RECURSIVE PngEmbedChunks(_, _, _, _, _, _)
PngEmbedChunks(f, m, p, out, mpos, car) ==
    IF Avail(f, p) < CHUNK_HEADER_SIZE
    THEN [rc |-> STEG_SUCCESS, pos |-> Max(p, Len(f)), out |-> out, car |-> car]
    ELSE LET chunk_length == Int32BE(f, p)
             chunk_type == SubSeq(f, p + 5, p + 8)
             d == PngEmbedData(f, m, p + CHUNK_HEADER_SIZE, chunk_length, 0,
                               EmbedsInto(chunk_type),
                               out \o SubSeq(f, p + 1, p + CHUNK_HEADER_SIZE), mpos, car)
         IN  IF d.rc # STEG_SUCCESS
             THEN [rc |-> d.rc, pos |-> d.pos, out |-> d.out, car |-> d.car]
             ELSE IF Avail(f, d.pos) < CRC_SIZE
             THEN [rc |-> STEG_FILE_ERROR, pos |-> Max(d.pos, Len(f)), out |-> d.out,
                   car |-> d.car]
             ELSE LET out2 == d.out \o SubSeq(f, d.pos + 1, d.pos + CRC_SIZE)
                  IN  IF chunk_type = IEND
                      THEN [rc |-> STEG_SUCCESS, pos |-> d.pos + CRC_SIZE, out |-> out2,
                            car |-> d.car]
                      ELSE PngEmbedChunks(f, m, d.pos + CRC_SIZE, out2, d.mpos, d.car)

\* png_embed: rewind, copy the signature, walk the chunks
png_embed(f, m) ==
    IF Avail(f, 0) < PNG_SIGNATURE_SIZE
    THEN [rc |-> STEG_FILE_ERROR, pos |-> Len(f), out |-> <<>>, car |-> <<>>]
    ELSE PngEmbedChunks(f, m, PNG_SIGNATURE_SIZE, SubSeq(f, 1, PNG_SIGNATURE_SIZE),
                        0, <<>>)

\* current_byte = (current_byte << 1) | bit, in unsigned char
ShiftIn_LsbFirst(cur, bit, cnt) == cur + bit * Pow2(cnt)
ShiftIn(cur, bit, cnt) == (cur * 2 + bit) % 256

\* value of current_byte tested by "Check for null terminator" (lines
\* 278-287): the byte is stored, current_byte is set to 0, then tested
TerminatorTest_StoredByte(stored) == stored
TerminatorTest(stored) == 0

\* the extraction for-loop over one block (lines 272-289, and the same
\* loop at 540-557 and 566-583): i is the 1-based index into the block, buf
\* the bytes stored in message so far (message_pos = Len(buf)), o the file
\* offset of the block.  done means the function returned STEG_SUCCESS.
RECURSIVE ExtractBlock(_, _, _, _, _, _, _, _)
ExtractBlock(block, i, ml, buf, cur, cnt, o, car) ==
    IF ~(i <= Len(block) /\ ULess(Len(buf), ml - 1))
    THEN [done |-> FALSE, buf |-> buf, cur |-> cur, cnt |-> cnt, car |-> car]
    ELSE LET bit == block[i] % 2
             cur1 == ShiftIn(cur, bit, cnt)
             car1 == Append(car, o + i - 1)
         IN  IF cnt + 1 = 8
             THEN IF TerminatorTest(cur1) = 0
                  THEN [done |-> TRUE, buf |-> Append(Append(buf, cur1), 0),
                        cur |-> 0, cnt |-> 0, car |-> car1]
                  ELSE ExtractBlock(block, i + 1, ml, Append(buf, cur1), 0, 0, o, car1)
             ELSE ExtractBlock(block, i + 1, ml, buf, cur1, cnt + 1, o, car1)

\* the IDAT data loop of png_extract (lines 263-291)
RECURSIVE PngExtractData(_, _, _, _, _, _, _, _, _)
PngExtractData(f, ml, p, clen, data_read, buf, cur, cnt, car) ==
    IF ~(ULess(data_read, clen) /\ ULess(Len(buf), ml - 1))
    THEN [rc |-> STEG_SUCCESS, done |-> FALSE, pos |-> p, buf |-> buf, car |-> car]
    ELSE LET to_read == IF UGreater(clen - data_read, BUFFER_SIZE)
                        THEN BUFFER_SIZE ELSE clen - data_read
         IN  IF Avail(f, p) < to_read
             THEN [rc |-> STEG_FILE_ERROR, done |-> TRUE, pos |-> Max(p, Len(f)),
                   buf |-> buf, car |-> car]
             ELSE LET b == ExtractBlock(SubSeq(f, p + 1, p + to_read), 1, ml, buf,
                                        cur, cnt, p, car)
                  IN  IF b.done
                      THEN [rc |-> STEG_SUCCESS, done |-> TRUE, pos |-> p + to_read,
                            buf |-> b.buf, car |-> b.car]
                      ELSE PngExtractData(f, ml, p + to_read, clen, data_read + to_read,
                                          b.buf, b.cur, b.cnt, b.car)

\* bytes png_extract passes over after the data of an IDAT chunk before it
\* reads the next chunk header (nothing: the CRC is not skipped)
AfterIdatSkip == 0

\* one pass of the chunk loop of png_extract (lines 247-303), the fread of
\* its loop test included, from offset p: done tells that png_extract
\* returns (rc, with buf the bytes written to message), otherwise the loop
\* goes on from pos
PngExtractIteration(f, ml, p, buf, car) ==
    IF Avail(f, p) < CHUNK_HEADER_SIZE
    THEN [done |-> TRUE, rc |-> STEG_SUCCESS, pos |-> Max(p, Len(f)),
          buf |-> Append(buf, 0), car |-> car]
    ELSE LET chunk_length == Int32BE(f, p)
             chunk_type == SubSeq(f, p + 5, p + 8)
             q == p + CHUNK_HEADER_SIZE
         IN  IF chunk_type = IDAT
             THEN LET d == PngExtractData(f, ml, q, chunk_length, 0, buf, 0, 0, car)
                  IN  IF d.done
                      THEN [done |-> TRUE, rc |-> d.rc, pos |-> d.pos, buf |-> d.buf,
                            car |-> d.car]
                      ELSE [done |-> FALSE, rc |-> STEG_SUCCESS,
                            pos |-> d.pos + AfterIdatSkip, buf |-> d.buf, car |-> d.car]
             ELSE \* fseek(input, chunk_length + 4, SEEK_CUR)
                  IF q + chunk_length + CRC_SIZE < 0
                  THEN [done |-> TRUE, rc |-> STEG_FILE_ERROR, pos |-> q, buf |-> buf,
                        car |-> car]
                  ELSE IF chunk_type = IEND
                  THEN [done |-> TRUE, rc |-> STEG_SUCCESS,
                        pos |-> q + chunk_length + CRC_SIZE,
                        buf |-> Append(buf, 0), car |-> car]
                  ELSE [done |-> FALSE, rc |-> STEG_SUCCESS,
                        pos |-> q + chunk_length + CRC_SIZE, buf |-> buf, car |-> car]

\* the chunk loop of png_extract (lines 247-306).  steps bounds the number
\* of chunk headers read in the model.
RECURSIVE PngExtractChunks(_, _, _, _, _, _)
PngExtractChunks(f, ml, p, buf, car, steps) ==
    IF Avail(f, p) >= CHUNK_HEADER_SIZE /\ steps = 0
    THEN [rc |-> STEG_SUCCESS, pos |-> p, buf |-> buf, car |-> car, looping |-> TRUE]
    ELSE LET it == PngExtractIteration(f, ml, p, buf, car)
         IN  IF it.done
             THEN [rc |-> it.rc, pos |-> it.pos, buf |-> it.buf, car |-> it.car,
                   looping |-> FALSE]
             ELSE PngExtractChunks(f, ml, it.pos, it.buf, it.car, steps - 1)

\* offsets at which the chunk loop of png_extract reads a chunk header, in
\* order, from offset p
RECURSIVE PngExtractHeaderReads(_, _, _, _, _, _)
PngExtractHeaderReads(f, ml, p, buf, car, steps) ==
    IF Avail(f, p) < CHUNK_HEADER_SIZE \/ steps = 0
    THEN <<>>
    ELSE LET it == PngExtractIteration(f, ml, p, buf, car)
         IN  <<p>> \o (IF it.done THEN <<>>
                       ELSE PngExtractHeaderReads(f, ml, it.pos, it.buf, it.car,
                                                   steps - 1))

\* png_extract: rewind, seek past the signature, walk the chunks
png_extract(f, ml) ==
    PngExtractChunks(f, ml, PNG_SIGNATURE_SIZE, <<>>, <<>>, MaxChunkSteps)

(***************************************************************************)
(* long arithmetic of png_get_capacity.  long holds 64 bits and the        *)
(* product width * height * 4 * bit_depth can need 72, so magnitudes are   *)
(* kept as little-endian sequences of base-256 digits with a sign apart.   *)
(***************************************************************************)
RECURSIVE BigCarry(_, _, _)
BigCarry(digits, i, carry) ==
    IF i > Len(digits)
    THEN IF carry = 0 THEN <<>> ELSE <<carry % 256>> \o BigCarry(digits, i, carry \div 256)
    ELSE <<(digits[i] + carry) % 256>> \o BigCarry(digits, i + 1, (digits[i] + carry) \div 256)

RECURSIVE SumTo(_, _, _)
SumTo(F(_), lo, hi) == IF lo > hi THEN 0 ELSE F(lo) + SumTo(F, lo + 1, hi)

BigMul(a, b) ==
    IF Len(a) = 0 \/ Len(b) = 0 THEN <<>>
    ELSE LET Term(k) ==
                LET P(i) == IF k + 1 - i >= 1 /\ k + 1 - i <= Len(b)
                            THEN a[i] * b[k + 1 - i] ELSE 0
                IN  SumTo(P, 1, Len(a))
         IN  BigCarry([k \in 1..(Len(a) + Len(b) - 1) |-> Term(k)], 1, 0)

BigOfSmall(n) == BigCarry(<<n>>, 1, 0)

BigDigit(a, i) == IF i <= Len(a) THEN a[i] ELSE 0

\* magnitude below 2^31: it fits a TLC integer
BigFitsInt(a) == BigDigit(a, 4) < 128 /\ \A i \in 5..Len(a) : a[i] = 0
BigToInt(a) ==
    BigDigit(a, 1) + 256 * BigDigit(a, 2) + 65536 * BigDigit(a, 3)
        + 16777216 * BigDigit(a, 4)

\* magnitude at least 2^63, and exactly 2^63
BigAtLeast2p63(a) == BigDigit(a, 8) >= 128 \/ \E i \in 9..Len(a) : a[i] # 0
BigIs2p63(a) == BigDigit(a, 8) = 128 /\ \A i \in 1..Len(a) : i # 8 => a[i] = 0

\* a signed value is [neg, mag]; it is outside long when its magnitude
\* reaches 2^63 (LONG_MIN itself excepted)
SignedOverflows(x) == BigAtLeast2p63(x.mag) /\ ~(x.neg /\ BigIs2p63(x.mag))
SignedMul(x, y) ==
    LET mag == BigMul(x.mag, y.mag)
    IN  [neg |-> (x.neg # y.neg) /\ (\E i \in 1..Len(mag) : mag[i] # 0), mag |-> mag]
SignedOfSmall(n) == [neg |-> FALSE, mag |-> BigOfSmall(n)]

\* width / height: the 4 big-endian bytes at offset o, as the int the
\* shifts produce, converted to long
LongFieldBE(f, o) ==
    IF f[o + 1] < 128
    THEN [neg |-> FALSE, mag |-> <<f[o + 4], f[o + 3], f[o + 2], f[o + 1]>>]
    ELSE [neg |-> TRUE,
          mag |-> BigCarry(<<255 - f[o + 4], 255 - f[o + 3], 255 - f[o + 2],
                             255 - f[o + 1]>>, 1, 1)]

\* A long result is "small" with its value v, or beyond the TLC range on
\* either side ("bigpos", "bigneg": at least 2^28 in magnitude after / 8).
SmallLong(v) == [kind |-> "small", v |-> v]
BigPos == [kind |-> "bigpos", v |-> 0]
BigNeg == [kind |-> "bigneg", v |-> 0]

\* x / 8 in C (truncating towards zero), then + add
DivideBy8Plus(x, add) ==
    IF BigFitsInt(x.mag)
    THEN LET q == BigToInt(x.mag) \div 8
         IN  SmallLong((IF x.neg THEN -q ELSE q) + add)
    ELSE IF x.neg THEN BigNeg ELSE BigPos

\* Signed overflow is undefined: any long may result.
AnyLong == {SmallLong(v) : v \in {-1, 0, 9, 10, 11, 999999, 1000000, 1000001}}
               \cup {BigPos, BigNeg}

\* the switch on color_type (lines 91-110): the set of values capacity can
\* hold before clamping.  Products are formed left to right.
PngFormula(width, height, bit_depth, color_type) ==
    LET wh == SignedMul(width, height)
        depth == SignedOfSmall(bit_depth)
        Scaled(k) == SignedMul(wh, SignedOfSmall(k))
        Result(steps, add) ==
            IF \E i \in 1..Len(steps) : SignedOverflows(steps[i])
            THEN AnyLong
            ELSE {DivideBy8Plus(steps[Len(steps)], add)}
    IN  CASE color_type = 0 -> Result(<<wh, SignedMul(wh, depth)>>, 0)
          [] color_type = 2 -> Result(<<wh, Scaled(3), SignedMul(Scaled(3), depth)>>, 0)
          [] color_type = 3 -> Result(<<wh>>, 256)
          [] color_type = 4 -> Result(<<wh, Scaled(2), SignedMul(Scaled(2), depth)>>, 0)
          [] color_type = 6 -> Result(<<wh, Scaled(4), SignedMul(Scaled(4), depth)>>, 0)
          [] OTHER -> Result(<<wh, Scaled(3)>>, 0)

\* the two clamps (lines 112-120)
ClampCapacity_NoMinimum(c) ==
    IF c.kind = "bigpos" \/ (c.kind = "small" /\ c.v > PNG_MAX_CAPACITY)
    THEN PNG_MAX_CAPACITY
    ELSE IF c.kind = "bigneg" THEN -PNG_MAX_CAPACITY ELSE c.v
ClampCapacity(c) ==
    IF c.kind = "bigneg" \/ (c.kind = "small" /\ c.v < PNG_MIN_CAPACITY)
    THEN PNG_MIN_CAPACITY
    ELSE IF c.kind = "bigpos" \/ c.v > PNG_MAX_CAPACITY
    THEN PNG_MAX_CAPACITY
    ELSE c.v

\* png_get_capacity: the set of outcomes [capacity, pos].  buffer holds the
\* 25 bytes after the signature (a short read returns -1); width is taken
\* from buffer[4..7], height from buffer[8..11], bit_depth from buffer[12]
\* and color_type from buffer[13].
png_get_capacity(f) ==
    IF Avail(f, PNG_SIGNATURE_SIZE) < IHDR_READ_SIZE
    THEN {[capacity |-> -1, pos |-> Max(PNG_SIGNATURE_SIZE, Len(f))]}
    ELSE LET b == PNG_SIGNATURE_SIZE
             width == LongFieldBE(f, b + 4)
             height == LongFieldBE(f, b + 8)
             bit_depth == f[b + 12 + 1]
             color_type == f[b + 13 + 1]
         IN  {[capacity |-> ClampCapacity(c), pos |-> 0] :
                 c \in PngFormula(width, height, bit_depth, color_type)}

(***************************************************************************)
(* PNG containers the model feeds to the code                              *)
(***************************************************************************)
BE4(n) == <<n \div 16777216, (n \div 65536) % 256, (n \div 256) % 256, n % 256>>

\* one chunk: length, type, data, CRC.  The CRC is 4 bytes the code copies
\* and never computes; k tells the chunks' CRCs apart.
Chunk(type, data, k) == BE4(Len(data)) \o type \o data \o <<193, 35, 69, k>>

FirstChunk(type, w4, h4, depth, ctype) ==
    Chunk(type, w4 \o h4 \o <<depth, ctype, 0, 0, 0>>, 1)

DefaultIhdr == FirstChunk(IHDR, <<0, 0, 0, 4>>, <<0, 0, 0, 2>>, 8, 2)
TextChunk == Chunk(TEXT, <<75, 0, 255>>, 2)
IendChunk == Chunk(IEND, <<>>, 9)

\* well-formed files: IHDR, then the n data bytes in one IDAT chunk or
\* split over two, with or without a text chunk before or between them
PngLayouts == {"one", "two", "text-one", "two-text"}

PngFile(layout, data) ==
    LET n == Len(data)
        h == n \div 2
        first == SubSeq(data, 1, h)
        second == SubSeq(data, h + 1, n)
    IN  PNG_SIGNATURE \o DefaultIhdr \o
        (CASE layout = "one" -> Chunk(IDAT, data, 3)
           [] layout = "two" -> Chunk(IDAT, first, 3) \o Chunk(IDAT, second, 4)
           [] layout = "text-one" -> TextChunk \o Chunk(IDAT, data, 3)
           [] layout = "two-text" ->
                Chunk(IDAT, first, 3) \o TextChunk \o Chunk(IDAT, second, 4))
        \o IendChunk

PngPatterns == { <<0>>, <<1, 254>>, <<165, 60, 127>> }

WellFormedPngs ==
    { PngFile(layout, Pixels(pat, n)) :
        layout \in PngLayouts, pat \in PngPatterns, n \in 0..MaxIdat }

\* files whose first chunk declares every kind of width, height, bit depth
\* and color type, under a first chunk type that is IHDR or not; the
\* height values put every color type in the byte the code switches on
FieldValues ==
    { <<0, 0, 0, 0>>, <<0, 0, 0, 100>>, <<0, 1, 0, 0>>, <<127, 255, 255, 255>>,
      <<128, 0, 0, 0>>, <<255, 255, 255, 255>> }

HeightValues ==
    FieldValues \cup { <<8, 0, 0, 1>>, <<8, 2, 0, 0>>, <<1, 3, 0, 0>>, <<16, 4, 0, 0>>,
                       <<255, 6, 0, 0>>, <<1, 6, 0, 0>>, <<3, 5, 0, 0>> }

FirstChunkTypes == { IHDR, TEXT, <<0, 0, 0, 2>>, <<255, 255, 255, 254>>, <<128, 0, 0, 0>> }

HeaderVariantPngs ==
    { PNG_SIGNATURE \o FirstChunk(type, w4, h4, dc[1], dc[2])
          \o Chunk(IDAT, Pixels(<<165, 60, 127>>, 8), 3) \o IendChunk :
        type \in FirstChunkTypes, w4 \in FieldValues, h4 \in HeightValues,
        dc \in {<<8, 2>>, <<16, 6>>} }

\* damaged files: cut short, a wrong signature, a chunk length past the
\* end of the file, a chunk length with its top bit set
PngBase == PngFile("text-one", Pixels(<<1, 254>>, 16))

MalformedPngs ==
    { SubSeq(PngBase, 1, n) : n \in {0, 7, 8, 12, 20, 32, 33, 41, 48, 60, 72, 76} }
    \cup { [PngBase EXCEPT ![2] = 81] }
    \cup { PNG_SIGNATURE \o DefaultIhdr \o BE4(200) \o type \o <<1, 2, 3, 4, 5, 6, 7, 8, 9>> :
             type \in {IDAT, TEXT} }
    \cup { PNG_SIGNATURE \o DefaultIhdr \o <<255, 255, 255, k>> \o type
             \o <<1, 2, 3, 4, 5, 6, 7, 8, 9>> :
             type \in {IDAT, TEXT}, k \in {244, 250, 255} }

PngContainers == WellFormedPngs \cup MalformedPngs

(***************************************************************************)
(* Operations on a PNG container (png_handler)                             *)
(***************************************************************************)
InitPNG == InitWith(PngContainers)

\* validation and the capacity query over every declared header
InitPNGHeader == InitWith(HeaderVariantPngs \cup MalformedPngs)

PngValidate ==
    LET r == png_validate(input, pos)
    IN  /\ StreamOpen
        /\ op' = "validate"
        /\ rc' = r.rc
        /\ pos' = r.pos
        /\ output' = <<>> /\ message' = <<>> /\ buffer' = <<>>
        /\ max_len' = 0 /\ capacity' = 0 /\ carriers' = <<>>
        /\ UNCHANGED idleVars

PngGetCapacity ==
    /\ StreamOpen
    /\ \E r \in png_get_capacity(input) :
        /\ op' = "capacity"
        /\ capacity' = r.capacity
        /\ pos' = r.pos
        /\ rc' = STEG_SUCCESS
        /\ output' = <<>> /\ message' = <<>> /\ buffer' = <<>>
        /\ max_len' = 0 /\ carriers' = <<>>
        /\ UNCHANGED idleVars

PngEmbed ==
    /\ StreamOpen
    /\ \E m \in Messages :
        LET r == png_embed(input, m)
        IN  /\ op' = "embed"
            /\ message' = m
            /\ rc' = r.rc
            /\ pos' = r.pos
            /\ output' = r.out
            /\ carriers' = r.car
            /\ buffer' = <<>> /\ max_len' = 0 /\ capacity' = 0
            /\ UNCHANGED idleVars

PngExtract ==
    /\ StreamOpen
    /\ \E ml \in MaxLens :
        LET r == png_extract(input, ml)
        IN  /\ ~r.looping
            /\ op' = "extract"
            /\ max_len' = ml
            /\ rc' = r.rc
            /\ pos' = r.pos
            /\ buffer' = r.buf
            /\ carriers' = r.car
            /\ output' = <<>> /\ message' = <<>> /\ capacity' = 0
            /\ UNCHANGED idleVars

\* the output of a successful embed is reopened and extracted from
PngExtractFromOutput ==
    /\ op = "embed"
    /\ rc = STEG_SUCCESS
    /\ \E ml \in MaxLens :
        LET r == png_extract(output, ml)
        IN  /\ ~r.looping
            /\ op' = "roundtrip"
            /\ max_len' = ml
            /\ rc' = r.rc
            /\ buffer' = r.buf
            /\ UNCHANGED <<idleVars, pos, output, message, capacity, carriers>>

NextPNG ==
    \/ PngValidate
    \/ PngGetCapacity
    \/ PngEmbed
    \/ PngExtract
    \/ PngExtractFromOutput

SpecPNG == InitPNG /\ [][NextPNG]_vars

NextPNGHeader ==
    \/ PngValidate
    \/ PngGetCapacity

SpecPNGHeader == InitPNGHeader /\ [][NextPNGHeader]_vars

(***************************************************************************)
(* Properties of the PNG handler.  The chunk layout of a stream is         *)
(* recomputed here from the file format alone, independently of the walk   *)
(* png_embed and png_extract make.                                         *)
(***************************************************************************)
UnsignedBE(f, o) ==
    ((f[o + 1] * 256 + f[o + 2]) * 256 + f[o + 3]) * 256 + f[o + 4]

\* the chunks laid end to end from offset p up to and including IEND, as
\* records [start, len, type]; a chunk that does not fit ends the list
RECURSIVE ChunkLayout(_, _)
ChunkLayout(f, p) ==
    IF p + CHUNK_HEADER_SIZE + CRC_SIZE > Len(f) \/ f[p + 1] >= 128
    THEN <<>>
    ELSE LET len == UnsignedBE(f, p)
             type == SubSeq(f, p + 5, p + 8)
             next == p + CHUNK_HEADER_SIZE + len + CRC_SIZE
         IN  IF next > Len(f)
             THEN <<>>
             ELSE <<[start |-> p, len |-> len, type |-> type]>> \o
                  (IF type = IEND THEN <<>> ELSE ChunkLayout(f, next))

\* signature, IHDR first, IEND last, and the chunks tile the whole file
IsWellFormedPng(f) ==
    /\ Len(f) >= PNG_SIGNATURE_SIZE
    /\ SubSeq(f, 1, PNG_SIGNATURE_SIZE) = PNG_SIGNATURE
    /\ LET cs == ChunkLayout(f, PNG_SIGNATURE_SIZE)
       IN  /\ Len(cs) >= 2
           /\ cs[1].type = IHDR
           /\ cs[Len(cs)].type = IEND
           /\ cs[Len(cs)].start + CHUNK_HEADER_SIZE + cs[Len(cs)].len + CRC_SIZE = Len(f)

\* the 0-based offsets of the data bytes of IDAT chunks
IdatDataOffsets(f) ==
    LET cs == ChunkLayout(f, PNG_SIGNATURE_SIZE)
    IN  UNION { (cs[i].start + CHUNK_HEADER_SIZE) ..
                (cs[i].start + CHUNK_HEADER_SIZE + cs[i].len - 1) :
                    i \in {j \in 1..Len(cs) : cs[j].type = IDAT} }

\* C2 (PNG round-trip): for a well-formed PNG whose reported capacity and
\* whose IDAT data both have room for the message and a terminator, and a
\* message without zero byte, embed succeeds and extracting from the output
\* with a large enough buffer returns the message byte for byte.
C2_PngRoundTrip ==
    (/\ op = "roundtrip"
     /\ IsWellFormedPng(input)
     /\ \A r \in png_get_capacity(input) : Len(message) + 1 <= r.capacity
     /\ 8 * (Len(message) + 1) <= Cardinality(IdatDataOffsets(input))
     /\ Len(message) < max_len)
        => (rc = STEG_SUCCESS /\ CString(buffer) = message)

\* C8 (PNG non-IDAT passthrough): after png_embed on a well-formed PNG the
\* output has the length of the source and every byte outside the data of
\* an IDAT chunk (signature, lengths, types, CRCs, other chunks' data)
\* equals the source byte at the same offset.
C8_PngNonIdatPassthrough ==
    (op = "embed" /\ IsWellFormedPng(input))
        => /\ rc = STEG_SUCCESS
           /\ Len(output) = Len(input)
           /\ \A i \in 1..Len(output) :
                 (i - 1) \notin IdatDataOffsets(input) => output[i] = input[i]

\* a message spread over two IDAT chunks with a tEXt chunk between them,
\* the IDAT data altered by it
C8_Witness ==
    /\ op = "embed"
    /\ IsWellFormedPng(input)
    /\ rc = STEG_SUCCESS
    /\ Len(message) >= 2
    /\ \E j \in 1..(Len(carriers) - 1) :
          carriers[j + 1] - carriers[j] > CHUNK_HEADER_SIZE + CRC_SIZE + 1
    /\ \E o \in IdatDataOffsets(input) : output[o + 1] # input[o + 1]
    /\ \A i \in 1..Len(output) :
          (i - 1) \notin IdatDataOffsets(input) => output[i] = input[i]

JPEG_SIGNATURE_SIZE == 2
MARKER_PREFIX == 255
SOI == 216
EOI == 217
SOS == 218
JPEG_CAPACITY_DIVISOR == 10

\* stand-in for 2^32 in "segment_length - 2" computed in unsigned int: a
\* length below 2 wraps to an offset far past the end of every file
UIntWrapBase == 1073741824

\* jpeg_validate: 1 and the stream rewound when the first two bytes are
\* FF D8, else 0 with the stream left after what was read
jpeg_validate(f, p) ==
    IF Avail(f, p) < JPEG_SIGNATURE_SIZE
    THEN [rc |-> 0, pos |-> Max(p, Len(f))]
    ELSE IF f[p + 1] # MARKER_PREFIX \/ f[p + 2] # SOI
    THEN [rc |-> 0, pos |-> p + JPEG_SIGNATURE_SIZE]
    ELSE [rc |-> 1, pos |-> 0]

\* jpeg_get_capacity: file_size / 10, the stream rewound
jpeg_get_capacity(f) ==
    [capacity |-> Len(f) \div JPEG_CAPACITY_DIVISOR, pos |-> 0]

\* the test "buffer[i] == 0xFF && buffer[i + 1] != 0x00" (lines 413, 536)
IsBoundary_AnyFF(b0, b1) == b0 = MARKER_PREFIX
IsBoundary(b0, b1) == b0 = MARKER_PREFIX /\ b1 # 0

\* the first 1-based index i < Len(block) at which the test succeeds, 0
\* when the for-loop over i < bytes_read - 1 finds none
MarkerIndex(block) ==
    LET hits == {i \in 1..(Len(block) - 1) : IsBoundary(block[i], block[i + 1])}
    IN  IF hits = {} THEN 0 ELSE CHOOSE i \in hits : \A j \in hits : i <= j

\* segment_length as read from the two length bytes
SegmentLength(f, p) == f[p + 1] * 256 + f[p + 2]

\* number of bytes the copy loop "for (i = 2; i < segment_length; i++)"
\* reads and writes
SegmentCopyCount(segment_length) == Max(0, segment_length - 2)

\* offset reached by fseek(input, segment_length - 2, SEEK_CUR) from p
SegmentSkip(p, segment_length) ==
    IF segment_length >= 2 THEN p + segment_length - 2
    ELSE p + UIntWrapBase + segment_length - 2

\* the scan-data loop of jpeg_embed (lines 410-446) from offset p, followed
\* by the rest of the marker loop (lines 374-473)
RECURSIVE JpegEmbedScan(_, _, _, _, _, _)
RECURSIVE JpegEmbedSegments(_, _, _, _, _, _)
JpegEmbedScan(f, m, p, out, mpos, car) ==
    LET n == Min(BUFFER_SIZE, Avail(f, p))
    IN  IF n = 0
        THEN JpegEmbedSegments(f, m, p, out, mpos, car)
        ELSE LET block == SubSeq(f, p + 1, p + n)
                 i == MarkerIndex(block)
                 region == IF i = 0 THEN block ELSE SubSeq(block, 1, i - 1)
                 k == Min(Len(region), Max(0, 8 * Len(m) - mpos))
                 written == EmbedBlock(region, m, mpos)
                 car1 == car \o [j \in 1..k |-> p + j - 1]
             IN  IF i = 0
                 THEN JpegEmbedScan(f, m, p + n, out \o written, mpos + k, car1)
                 ELSE JpegEmbedSegments(f, m, p + n,
                                        out \o written \o SubSeq(block, i, n),
                                        mpos + k, car1)

JpegEmbedSegments(f, m, p, out, mpos, car) ==
    IF Avail(f, p) < 2
    THEN [rc |-> STEG_SUCCESS, pos |-> Max(p, Len(f)), out |-> out, car |-> car]
    ELSE LET marker_type == f[p + 2]
             out1 == out \o SubSeq(f, p + 1, p + 2)
         IN  IF f[p + 1] # MARKER_PREFIX \/ marker_type = SOI
             THEN JpegEmbedSegments(f, m, p + 2, out1, mpos, car)
             ELSE IF marker_type = EOI
             THEN [rc |-> STEG_SUCCESS, pos |-> p + 2, out |-> out1, car |-> car]
             ELSE IF Avail(f, p + 2) < 2
             THEN [rc |-> STEG_FILE_ERROR, pos |-> Len(f), out |-> out1, car |-> car]
             ELSE LET segment_length == SegmentLength(f, p + 2)
                      out2 == out1 \o SubSeq(f, p + 3, p + 4)
                      cnt == SegmentCopyCount(segment_length)
                      q == p + 4 + cnt
                  IN  IF Avail(f, p + 4) < cnt
                      THEN [rc |-> STEG_FILE_ERROR, pos |-> Len(f),
                            out |-> out2 \o SubSeq(f, p + 5, Len(f)), car |-> car]
                      ELSE IF marker_type = SOS
                      THEN JpegEmbedScan(f, m, q, out2 \o SubSeq(f, p + 5, q), mpos, car)
                      ELSE JpegEmbedSegments(f, m, q, out2 \o SubSeq(f, p + 5, q),
                                             mpos, car)

\* jpeg_embed: rewind, copy the signature, walk the segments
jpeg_embed(f, m) ==
    IF Avail(f, 0) < JPEG_SIGNATURE_SIZE
    THEN [rc |-> STEG_FILE_ERROR, pos |-> Len(f), out |-> <<>>, car |-> <<>>]
    ELSE JpegEmbedSegments(f, m, JPEG_SIGNATURE_SIZE,
                           SubSeq(f, 1, JPEG_SIGNATURE_SIZE), 0, <<>>)

\* bytes jpeg_extract passes over between the SOS marker and the two bytes
\* it takes as the segment length (fseek(input, 2, SEEK_CUR), line 516)
SosLengthSkip == 2

\* the scan-data loop of jpeg_extract (lines 533-584) from offset p,
\* followed by the rest of the marker loop (lines 502-606); current_byte
\* and bit_count live for the whole call
RECURSIVE JpegExtractScan(_, _, _, _, _, _, _)
RECURSIVE JpegExtractSegments(_, _, _, _, _, _, _)
JpegExtractScan(f, ml, p, buf, cur, cnt, car) ==
    LET n == Min(BUFFER_SIZE, Avail(f, p))
    IN  IF n = 0
        THEN JpegExtractSegments(f, ml, p, buf, cur, cnt, car)
        ELSE LET block == SubSeq(f, p + 1, p + n)
                 i == MarkerIndex(block)
                 region == IF i = 0 THEN block ELSE SubSeq(block, 1, i - 1)
                 b == ExtractBlock(region, 1, ml, buf, cur, cnt, p, car)
             IN  IF b.done
                 THEN [rc |-> STEG_SUCCESS, pos |-> p + n, buf |-> b.buf, car |-> b.car]
                 ELSE IF i = 0
                 THEN JpegExtractScan(f, ml, p + n, b.buf, b.cur, b.cnt, b.car)
                 ELSE JpegExtractSegments(f, ml, p + n, b.buf, b.cur, b.cnt, b.car)

JpegExtractSegments(f, ml, p, buf, cur, cnt, car) ==
    IF Avail(f, p) < 2
    THEN [rc |-> STEG_SUCCESS, pos |-> Max(p, Len(f)), buf |-> Append(buf, 0),
          car |-> car]
    ELSE LET marker_type == f[p + 2]
         IN  IF f[p + 1] # MARKER_PREFIX
             THEN JpegExtractSegments(f, ml, p + 1, buf, cur, cnt, car)
             ELSE IF marker_type = SOI
             THEN JpegExtractSegments(f, ml, p + 2, buf, cur, cnt, car)
             ELSE IF marker_type = EOI
             THEN [rc |-> STEG_SUCCESS, pos |-> p + 2, buf |-> Append(buf, 0),
                   car |-> car]
             ELSE LET q == IF marker_type = SOS THEN p + 2 + SosLengthSkip ELSE p + 2
                  IN  IF Avail(f, q) < 2
                      THEN [rc |-> STEG_FILE_ERROR, pos |-> Max(q, Len(f)),
                            buf |-> buf, car |-> car]
                      ELSE LET s == SegmentSkip(q + 2, SegmentLength(f, q))
                           IN  IF marker_type = SOS
                               THEN JpegExtractScan(f, ml, s, buf, cur, cnt, car)
                               ELSE JpegExtractSegments(f, ml, s, buf, cur, cnt, car)

\* jpeg_extract: rewind, seek past the signature, walk the segments
jpeg_extract(f, ml) ==
    JpegExtractSegments(f, ml, JPEG_SIGNATURE_SIZE, <<>>, 0, 0, <<>>)

(***************************************************************************)
(* JPEG containers the model feeds to the handler                          *)
(***************************************************************************)
SoiMarker == <<MARKER_PREFIX, SOI>>
EoiMarker == <<MARKER_PREFIX, EOI>>
App0Segment == <<MARKER_PREFIX, 224, 0, 4, 74, 70>>

\* SOS headers: the usual one-component header; one whose two bytes after
\* the length read as the length 2; one whose two bytes after the length
\* read as the length 3
SosHeader(kind) ==
    CASE kind = "usual" -> <<MARKER_PREFIX, SOS, 0, 8, 1, 1, 0, 0, 63, 0>>
      [] kind = "bare" -> <<MARKER_PREFIX, SOS, 0, 4, 0, 2>>
      [] kind = "three" -> <<MARKER_PREFIX, SOS, 0, 6, 0, 3, 17, 34>>

JpegLayouts == {"bare", "app-bare", "app-usual", "three", "bare-open"}

JpegFile(layout, scan) ==
    SoiMarker \o
    (CASE layout = "bare" -> SosHeader("bare") \o scan \o EoiMarker
       [] layout = "app-bare" -> App0Segment \o SosHeader("bare") \o scan \o EoiMarker
       [] layout = "app-usual" -> App0Segment \o SosHeader("usual") \o scan \o EoiMarker
       [] layout = "three" -> SosHeader("three") \o scan \o EoiMarker
       [] layout = "bare-open" -> SosHeader("bare") \o scan)

\* scan data, with and without stuffed FF 00 pairs
ScanPatterns == { <<0>>, <<165, 60, 127>>, <<2, 255, 0, 1, 254>> }

MaxScan == 24

WellFormedJpegs ==
    { JpegFile(layout, Pixels(pat, n)) :
        layout \in JpegLayouts, pat \in ScanPatterns, n \in 0..MaxScan }

JpegBase == JpegFile("app-bare", Pixels(<<165, 60, 127>>, 8))

\* damaged files: truncations, a foreign signature, segment lengths below
\* 2 or beyond the end, bytes between segments that are no marker
MalformedJpegs ==
    { SubSeq(JpegBase, 1, n) : n \in {0, 1, 2, 3, 4, 5, 7, 9, 10, 11, 13} }
    \cup { [JpegBase EXCEPT ![2] = 217], [JpegBase EXCEPT ![1] = 66] }
    \cup { SoiMarker \o <<MARKER_PREFIX, 224, 0, k>> \o SosHeader("bare")
             \o Pixels(<<2, 255, 0, 1, 254>>, 10) \o EoiMarker : k \in {0, 1, 2, 200} }
    \cup { SoiMarker \o junk \o SosHeader("bare")
             \o Pixels(<<2, 255, 0, 1, 254>>, 10) \o EoiMarker :
             junk \in {<<1, 2>>, <<1, 2, 3>>, SoiMarker, <<7, MARKER_PREFIX>>} }

JpegContainers == WellFormedJpegs \cup MalformedJpegs

(***************************************************************************)
(* Operations on a JPEG container (jpeg_handler)                           *)
(***************************************************************************)
InitJPEG == InitWith(JpegContainers)

JpegValidate ==
    LET r == jpeg_validate(input, pos)
    IN  /\ StreamOpen
        /\ op' = "validate"
        /\ rc' = r.rc
        /\ pos' = r.pos
        /\ output' = <<>> /\ message' = <<>> /\ buffer' = <<>>
        /\ max_len' = 0 /\ capacity' = 0 /\ carriers' = <<>>
        /\ UNCHANGED idleVars

JpegGetCapacity ==
    LET r == jpeg_get_capacity(input)
    IN  /\ StreamOpen
        /\ op' = "capacity"
        /\ capacity' = r.capacity
        /\ pos' = r.pos
        /\ rc' = STEG_SUCCESS
        /\ output' = <<>> /\ message' = <<>> /\ buffer' = <<>>
        /\ max_len' = 0 /\ carriers' = <<>>
        /\ UNCHANGED idleVars

JpegEmbed ==
    /\ StreamOpen
    /\ \E m \in Messages :
        LET r == jpeg_embed(input, m)
        IN  /\ op' = "embed"
            /\ message' = m
            /\ rc' = r.rc
            /\ pos' = r.pos
            /\ output' = r.out
            /\ carriers' = r.car
            /\ buffer' = <<>> /\ max_len' = 0 /\ capacity' = 0
            /\ UNCHANGED idleVars

JpegExtract ==
    /\ StreamOpen
    /\ \E ml \in MaxLens :
        LET r == jpeg_extract(input, ml)
        IN  /\ op' = "extract"
            /\ max_len' = ml
            /\ rc' = r.rc
            /\ pos' = r.pos
            /\ buffer' = r.buf
            /\ carriers' = r.car
            /\ output' = <<>> /\ message' = <<>> /\ capacity' = 0
            /\ UNCHANGED idleVars

\* the output of a successful embed is reopened and extracted from
JpegExtractFromOutput ==
    /\ op = "embed"
    /\ rc = STEG_SUCCESS
    /\ \E ml \in MaxLens :
        LET r == jpeg_extract(output, ml)
        IN  /\ op' = "roundtrip"
            /\ max_len' = ml
            /\ rc' = r.rc
            /\ buffer' = r.buf
            /\ UNCHANGED <<idleVars, pos, output, message, capacity, carriers>>

NextJPEG ==
    \/ JpegValidate
    \/ JpegGetCapacity
    \/ JpegEmbed
    \/ JpegExtract
    \/ JpegExtractFromOutput

SpecJPEG == InitJPEG /\ [][NextJPEG]_vars

(***************************************************************************)
(* Properties of the JPEG handler.  The segment layout of a stream is      *)
(* recomputed here from the file format alone, independently of the walk   *)
(* jpeg_embed and jpeg_extract make.                                       *)
(***************************************************************************)
\* offset of the SOS marker reached from p over length-prefixed segments,
\* -1 when the segments do not lead to one
RECURSIVE SosOffset(_, _)
SosOffset(f, p) ==
    IF p + 4 > Len(f) \/ f[p + 1] # 255 \/ f[p + 2] \in {0, 216, 217}
    THEN -1
    ELSE LET len == f[p + 3] * 256 + f[p + 4]
         IN  IF len < 2 \/ p + 2 + len > Len(f) THEN -1
             ELSE IF f[p + 2] = 218 THEN p
             ELSE SosOffset(f, p + 2 + len)

\* offset of the first scan-data byte: just after the SOS segment
ScanStart(f) ==
    LET s == SosOffset(f, 2)
    IN  s + 2 + f[s + 3] * 256 + f[s + 4]

\* TRUE when a real marker (FF and a non-zero byte) stands at offset o
MarkerAt(f, o) == o + 2 <= Len(f) /\ f[o + 1] = 255 /\ f[o + 2] # 0

\* offset of the first real marker at or after the scan start, or the end
\* of the file
ScanEnd(f) ==
    LET ends == {o \in ScanStart(f)..Len(f) : MarkerAt(f, o) \/ o = Len(f)}
    IN  CHOOSE o \in ends : \A e \in ends : o <= e

\* SOI, segments, one SOS segment, scan data, EOI at the end of the file
IsWellFormedJpeg(f) ==
    /\ Len(f) >= 4
    /\ f[1] = 255 /\ f[2] = 216
    /\ SosOffset(f, 2) >= 0
    /\ ScanEnd(f) = Len(f) - 2
    /\ f[Len(f)] = 217

\* C3 (JPEG round-trip): for a well-formed JPEG with at least 8*(len+1)
\* scan-data bytes before the next marker, a message without zero byte and
\* len+1 within the reported capacity, extracting from the output of embed
\* with a large enough buffer succeeds and returns the message.
C3_JpegRoundTrip ==
    (/\ op = "roundtrip"
     /\ IsWellFormedJpeg(input)
     /\ 8 * (Len(message) + 1) <= ScanEnd(input) - ScanStart(input)
     /\ Len(message) + 1 <= jpeg_get_capacity(input).capacity
     /\ Len(message) < max_len)
        => (rc = STEG_SUCCESS /\ CString(buffer) = message)

\* the offsets in car advance by one, except across a real marker, and the
\* last of them is followed by a real marker or the end of the file unless
\* the operation had nothing left to carry
CarriersEndOnlyAtMarker(f, car, exhausted) ==
    /\ \A j \in 1..(Len(car) - 1) :
          car[j + 1] = car[j] + 1 \/ MarkerAt(f, car[j] + 1)
    /\ Len(car) > 0 =>
          LET last == car[Len(car)]
          IN  exhausted \/ last + 1 >= Len(f) \/ MarkerAt(f, last + 1)

\* C9 (JPEG stuffing safety): in scan data FF 00 does not end the carrier
\* region.  jpeg_embed on a well-formed JPEG writes the message bits into
\* the consecutive bytes from the scan start up to the first FF followed by
\* a non-zero byte, stuffed pairs included; and for both jpeg_embed and
\* jpeg_extract on any stream the run of carrier bytes is interrupted only
\* by FF followed by a non-zero byte.
C9_JpegStuffingSafety ==
    /\ (op = "embed" /\ IsWellFormedJpeg(input)) =>
          /\ rc = STEG_SUCCESS
          /\ carriers = [j \in 1..Min(8 * Len(message), ScanEnd(input) - ScanStart(input))
                            |-> ScanStart(input) + j - 1]
          /\ \A j \in 1..Len(carriers) :
                output[carriers[j] + 1] =
                    (input[carriers[j] + 1] \div 2) * 2
                        + BitOf(message[((j - 1) \div 8) + 1], (j - 1) % 8)
    /\ op = "embed" =>
          CarriersEndOnlyAtMarker(input, carriers, Len(carriers) = 8 * Len(message))
    /\ op = "extract" =>
          CarriersEndOnlyAtMarker(input, carriers,
                                  Len(carriers) = 8 * (Len(buffer) - 1))

\* TRUE when car holds the two offsets of a stuffed FF 00 pair and a later
\* offset
CarriesStuffedPair(f, car) ==
    \E j \in 1..(Len(car) - 2) :
        /\ f[car[j] + 1] = 255
        /\ f[car[j + 1] + 1] = 0
        /\ car[j + 1] = car[j] + 1
        /\ car[j + 2] = car[j] + 2

\* embed has written a 0 bit into the FF and a 1 bit into the 00 of a
\* stuffed pair and gone on past it, and extract on the same stream reads
\* the LSBs of the pair and of the byte after it
C9_Witness ==
    /\ op = "embed"
    /\ IsWellFormedJpeg(input)
    /\ rc = STEG_SUCCESS
    /\ CarriesStuffedPair(input, carriers)
    /\ \E j \in 1..(Len(carriers) - 2) :
          /\ input[carriers[j] + 1] = 255 /\ output[carriers[j] + 1] = 254
          /\ input[carriers[j] + 2] = 0 /\ output[carriers[j] + 2] = 1
    /\ CarriesStuffedPair(input, jpeg_extract(input, MaxBufLen).car)

(***************************************************************************)
(* Format registry (formats.c): handlers[] and get_format_handler.  File   *)
(* names and extension lists are sequences of character codes.             *)
(***************************************************************************)
\* .name and .extensions of bmp_handler, png_handler, jpeg_handler, in the
\* order of handlers[]: ".bmp,.BMP", ".png,.PNG", ".jpg,.jpeg,.JPG,.JPEG"
handlers ==
    << [name |-> "BMP", extensions |-> <<46, 98, 109, 112, 44, 46, 66, 77, 80>>],
       [name |-> "PNG", extensions |-> <<46, 112, 110, 103, 44, 46, 80, 78, 71>>],
       [name |-> "JPEG",
        extensions |-> <<46, 106, 112, 103, 44, 46, 106, 112, 101, 103, 44,
                         46, 74, 80, 71, 44, 46, 74, 80, 69, 71>>] >>

\* strrchr(filename, '.'): the text from the last '.' onward, <<>> standing
\* for NULL (a match always begins with '.', so it is never empty)
StrRChrDot(filename) ==
    LET dots == {i \in 1..Len(filename) : filename[i] = 46}
    IN  IF dots = {} THEN <<>>
        ELSE SubSeq(filename, CHOOSE i \in dots : \A j \in dots : j <= i, Len(filename))

\* strtok(ext_copy, ","): the non-empty pieces between commas, in order
RECURSIVE StrTokComma(_, _)
StrTokComma(s, cur) ==
    IF s = <<>> THEN (IF cur = <<>> THEN <<>> ELSE <<cur>>)
    ELSE IF Head(s) = 44
    THEN (IF cur = <<>> THEN <<>> ELSE <<cur>>) \o StrTokComma(Tail(s), <<>>)
    ELSE StrTokComma(Tail(s), Append(cur, Head(s)))

\* while (*token == ' ') token++
RECURSIVE SkipSpaces(_)
SkipSpaces(token) ==
    IF token # <<>> /\ Head(token) = 32 THEN SkipSpaces(Tail(token)) ELSE token

\* tolower in the C locale
ToLower(c) == IF c >= 65 /\ c <= 90 THEN c + 32 ELSE c

\* strcasecmp(a, b) == 0
StrCaseEq_Exact(a, b) == a = b
StrCaseEq(a, b) ==
    /\ Len(a) = Len(b)
    /\ \A i \in 1..Len(a) : ToLower(a[i]) = ToLower(b[i])

\* TRUE when a token of handlers[i]->extensions equals ext
HandlerMatches(i, ext) ==
    LET tokens == StrTokComma(handlers[i].extensions, <<>>)
    IN  \E t \in 1..Len(tokens) : StrCaseEq(ext, SkipSpaces(tokens[t]))

\* get_format_handler: the name of the first matching handler, "none" for
\* NULL
get_format_handler(filename) ==
    LET ext == StrRChrDot(filename)
        hits == {i \in 1..Len(handlers) : HandlerMatches(i, ext)}
    IN  IF ext = <<>> \/ hits = {} THEN "none"
        ELSE handlers[CHOOSE i \in hits : \A j \in hits : i <= j].name

\* is_format_supported
is_format_supported(filename) == IF get_format_handler(filename) # "none" THEN 1 ELSE 0

\* every upper/lower-case spelling of a lower-case word
RECURSIVE Spellings(_)
Spellings(w) ==
    IF w = <<>> THEN {<<>>}
    ELSE {<<c>> \o rest : c \in {Head(w), IF Head(w) >= 97 /\ Head(w) <= 122
                                            THEN Head(w) - 32 ELSE Head(w)},
                          rest \in Spellings(Tail(w))}

\* endings: the four extensions in every letter case, and near misses
KnownExtensions ==
    { <<46, 98, 109, 112>>, <<46, 112, 110, 103>>, <<46, 106, 112, 103>>,
      <<46, 106, 112, 101, 103>> }

Endings ==
    UNION {Spellings(e) : e \in KnownExtensions}
    \cup { <<>>, <<46>>, <<98, 109, 112>>, <<46, 98, 109>>, <<46, 98, 109, 112, 120>>,
           <<46, 103, 105, 102>>, <<46, 106, 112, 101>>, <<46, 98, 109, 112, 32>>,
           <<46, 32, 98, 109, 112>>, <<46, 98, 109, 112, 44, 46, 66, 77, 80>>,
           <<46, 98, 109, 112, 47, 102>>, <<46, 112, 110, 103, 46>>, <<46, 116, 120, 116>> }

Stems == { <<>>, <<97>>, <<97, 46, 112, 110, 103>>, <<100, 46, 106, 112, 103, 47, 102>> }

Filenames == { stem \o e : stem \in Stems, e \in Endings }

InitRegistry ==
    /\ input_file \in Filenames
    /\ input = <<>> /\ source = <<>> /\ output_file = <<>>
    /\ pos = 0 /\ output = <<>> /\ message = <<>> /\ buffer = <<>>
    /\ max_len = 0 /\ rc = STEG_SUCCESS /\ op = "open" /\ capacity = 0
    /\ carriers = <<>> /\ handler = "none" /\ output_opened = FALSE
    /\ passes = 0

GetFormatHandler ==
    /\ op = "open"
    /\ op' = "resolve"
    /\ handler' = get_format_handler(input_file)
    /\ UNCHANGED <<input, pos, output, message, buffer, max_len, rc, capacity,
                   carriers, input_file, output_file, source, output_opened,
                   passes>>

IsFormatSupported ==
    /\ op = "open"
    /\ op' = "supported"
    /\ rc' = is_format_supported(input_file)
    /\ UNCHANGED <<input, pos, output, message, buffer, max_len, capacity,
                   carriers, input_file, output_file, handler, source,
                   output_opened, passes>>

NextRegistry ==
    \/ GetFormatHandler
    \/ IsFormatSupported

SpecRegistry == InitRegistry /\ [][NextRegistry]_vars

\* the extension of a name, lower-cased letter by letter, <<>> without '.'
LowerExtension(name) ==
    LET dots == {i \in 1..Len(name) : name[i] = 46}
        last == CHOOSE i \in dots : \A j \in dots : j <= i
    IN  IF dots = {} THEN <<>>
        ELSE [k \in 1..(Len(name) - last + 1) |->
                  LET c == name[last + k - 1]
                  IN  IF c \in 65..90 THEN c + 32 ELSE c]

\* the handler the extension belongs to
ExpectedHandler(name) ==
    LET e == LowerExtension(name)
    IN  CASE e = <<46, 98, 109, 112>> -> "BMP"
          [] e = <<46, 112, 110, 103>> -> "PNG"
          [] e \in {<<46, 106, 112, 103>>, <<46, 106, 112, 101, 103>>} -> "JPEG"
          [] OTHER -> "none"

\* C13 (registry resolve): get_format_handler returns BMP for .bmp, PNG for
\* .png, JPEG for .jpg and .jpeg taken from the final '.' of the name in any
\* letter case, not-found when there is no '.' or no handler lists the
\* extension; is_format_supported agrees; and no extension is matched by
\* more than one handler.
C13_RegistryResolve ==
    /\ op = "resolve" => handler = ExpectedHandler(input_file)
    /\ op = "supported" => (rc = 1 <=> ExpectedHandler(input_file) # "none")
    /\ op \in {"resolve", "supported"} =>
          Cardinality({i \in 1..Len(handlers) :
                          HandlerMatches(i, StrRChrDot(input_file))}) <= 1

\* a name with two dots and a mixed-case last extension resolved to JPEG
C13_Witness ==
    /\ op = "resolve"
    /\ input_file = <<97, 46, 112, 110, 103, 46, 74, 112, 69, 103>>
    /\ handler = "JPEG"

(***************************************************************************)
(* The command-line tool (steg_cli.c main): one run on a named input file  *)
(***************************************************************************)
MAX_MESSAGE_LENGTH == 4096

\* input names a.bmp, a.png, a.jpg, a.jpeg and the output name o.bmp
CliInputNames ==
    { <<97, 46, 98, 109, 112>>, <<97, 46, 112, 110, 103>>, <<97, 46, 106, 112, 103>>,
      <<97, 46, 106, 112, 101, 103>> }

CliOutputName == <<111, 46, 98, 109, 112>>

\* files given to the tool: BMPs with and without an embedded message, and
\* PNGs and JPEGs as they are and as png_embed and jpeg_embed leave them
CliBmps ==
    { ValidBmpHeader(1) \o Pixels(pat, n) : pat \in PixelPatterns, n \in {0, 8, 16, 24} }

CliPngs ==
    LET plain == { PngFile(layout, Pixels(pat, 24)) :
                     layout \in {"one", "two-text"}, pat \in PngPatterns }
    IN  plain \cup { png_embed(f, <<65>>).out : f \in plain }

CliJpegs ==
    LET plain == { JpegFile(layout, Pixels(pat, 24)) :
                     layout \in {"bare", "app-usual"}, pat \in ScanPatterns }
    IN  plain \cup { jpeg_embed(f, <<65>>).out : f \in plain }

CliContainers ==
    CliBmps \cup { embed_message(<<65>>, f).out : f \in {g \in CliBmps : Len(g) >= 70} }
    \cup CliPngs \cup CliJpegs

InitCLI ==
    /\ input \in CliContainers
    /\ input_file \in CliInputNames
    /\ output_file \in {input_file, CliOutputName}
    /\ source = input
    /\ pos = 0 /\ output = <<>> /\ message = <<>> /\ buffer = <<>>
    /\ max_len = 0 /\ rc = STEG_SUCCESS /\ op = "open" /\ capacity = 0
    /\ carriers = <<>> /\ handler = "none" /\ output_opened = FALSE
    /\ passes = 0

\* the functions main calls to validate, size, extract and embed are those
\* of the BMP core whatever the name of the input file is (lines 124-204)
CliHandler(name) == "BMP"

\* capacity mode (lines 116-142)
CliCapacity ==
    LET v == read_bmp_header(input)
    IN  /\ op = "open"
        /\ op' = "cli-capacity"
        /\ handler' = CliHandler(input_file)
        /\ rc' = v.rc
        /\ pos' = v.pos
        /\ capacity' = IF v.rc = STEG_SUCCESS
                       THEN calculate_message_capacity(input, v.pos).capacity ELSE 0
        /\ UNCHANGED <<input, input_file, output_file, source, output_opened,
                       passes, output, message, buffer, max_len, carriers>>

\* extract mode (lines 116-159): extract_message into buffer[MAX_MESSAGE_LENGTH]
CliExtract ==
    LET v == read_bmp_header(input)
        r == extract_message(MAX_MESSAGE_LENGTH, input, v.pos)
    IN  /\ op = "open"
        /\ op' = "cli-extract"
        /\ handler' = CliHandler(input_file)
        /\ max_len' = MAX_MESSAGE_LENGTH
        /\ IF v.rc # STEG_SUCCESS
           THEN rc' = v.rc /\ pos' = v.pos /\ buffer' = <<>>
           ELSE rc' = r.rc /\ pos' = r.pos /\ buffer' = r.buf
        /\ capacity' = IF v.rc = STEG_SUCCESS
                       THEN calculate_message_capacity(input, v.pos).capacity ELSE 0
        /\ UNCHANGED <<input, input_file, output_file, source, output_opened,
                       passes, output, message, carriers>>

\* what the input stream yields once fopen(output_file, "wb") has emptied
\* the file it reads: nothing, or the bytes the stream had buffered
ReadableAfterTruncation(f) == {<<>>, f}

\* fopen(output_file, "wb") empties the source when both names are one
OpensSourceForWriting(in, out) == in = out

\* embed mode (lines 116-223).  A message that does not fit ends the run
\* before the output file is opened; rc then holds the code embed_message
\* gives for the same test.
CliEmbed ==
    /\ op = "open"
    /\ \E m \in Messages :
        LET v == read_bmp_header(input)
            c == calculate_message_capacity(input, v.pos).capacity
        IN  /\ op' = "cli-embed"
            /\ handler' = CliHandler(input_file)
            /\ message' = m
            /\ IF v.rc # STEG_SUCCESS
               THEN /\ rc' = v.rc /\ pos' = v.pos /\ capacity' = 0
                    /\ output' = <<>> /\ carriers' = <<>> /\ source' = source
                    /\ output_opened' = FALSE
               ELSE IF ~MessageFits(m, c)
               THEN /\ rc' = STEG_INSUFFICIENT_CAPACITY /\ pos' = v.pos /\ capacity' = c
                    /\ output' = <<>> /\ carriers' = <<>> /\ source' = source
                    /\ output_opened' = FALSE
               ELSE IF OpensSourceForWriting(input_file, output_file)
               THEN \E seen \in ReadableAfterTruncation(input) :
                       LET r == embed_message(m, seen)
                       IN  /\ rc' = r.rc /\ pos' = r.pos /\ capacity' = c
                           /\ output' = r.out /\ carriers' = r.carriers
                           /\ source' = r.out
                           /\ output_opened' = TRUE
               ELSE LET r == embed_message(m, input)
                    IN  /\ rc' = r.rc /\ pos' = r.pos /\ capacity' = c
                        /\ output' = r.out /\ carriers' = r.carriers
                        /\ source' = source
                        /\ output_opened' = TRUE
            /\ UNCHANGED <<input, input_file, output_file, buffer, max_len, passes>>

NextCLI ==
    \/ CliCapacity
    \/ CliExtract
    \/ CliEmbed

SpecCLI == InitCLI /\ [][NextCLI]_vars

CliOps == {"cli-capacity", "cli-extract", "cli-embed"}

\* C11 (CLI format dispatch): for a valid PNG named *.png or a valid JPEG
\* named *.jpg/*.jpeg, the capacity, embed and extract modes pass
\* validation and are served by the handler of that format.
C11_CliFormatDispatch ==
    (/\ op \in CliOps
     /\ \/ ExpectedHandler(input_file) = "PNG" /\ IsWellFormedPng(input)
        \/ ExpectedHandler(input_file) = "JPEG" /\ IsWellFormedJpeg(input))
        => /\ rc \notin {STEG_INVALID_BMP, STEG_FILE_ERROR}
           /\ handler = ExpectedHandler(input_file)

\* C12 (source never mutated): after an embed, successful or failed, by a
\* format embedder or by the CLI embed mode with any input and output path,
\* the source file holds the bytes it held before.
C12_SourceNeverMutated ==
    op \in {"embed", "cli-embed"} => source = input

(***************************************************************************)
(* Error reporting of the BMP core                                         *)
(***************************************************************************)
\* C14 (BMP truncated header): on every stream of fewer than 54 bytes,
\* whatever the bytes are, validation fails with FileError.
C14_BmpTruncatedHeader ==
    (op = "validate" /\ Len(input) < 54) => rc = STEG_FILE_ERROR

\* TRUE when one of the first n characters carried after the header is
\* complete and is zero
TerminatorWithin(f, n) ==
    \E i \in 0..(n - 1) :
        /\ 54 + 8 * (i + 1) <= Len(f)
        /\ \A j \in 1..8 : f[54 + 8 * i + j] % 2 = 0

\* C15 (BMP extract without terminator): on a valid BMP, extract_message
\* with max_len >= 1 fails with FileError when no zero byte is carried
\* within the first max_len-1 characters, be it that the stream ends first
\* or that max_len-1 characters were rebuilt; success is never reported
\* without a terminator found.
C15_BmpExtractWithoutTerminator ==
    (/\ op = "extract"
     /\ IsValidBmp(input)
     /\ max_len >= 1
     /\ ~TerminatorWithin(input, max_len - 1))
        => rc = STEG_FILE_ERROR

(***************************************************************************)
(* Error reporting, stream position and bit stream of the PNG handler      *)
(***************************************************************************)
\* TRUE when the chunks laid end to end from offset p reach, at or before
\* IEND, a chunk whose header is complete and whose declared length runs
\* past the end of the stream
RECURSIVE TruncatedChunkFrom(_, _)
TruncatedChunkFrom(f, p) ==
    IF p + 8 > Len(f) THEN FALSE
    ELSE IF f[p + 1] >= 128 THEN TRUE
    ELSE LET len == UnsignedBE(f, p)
         IN  IF p + 8 + len > Len(f) THEN TRUE
             ELSE IF SubSeq(f, p + 5, p + 8) = <<73, 69, 78, 68>> \/ p + 12 + len > Len(f)
             THEN FALSE
             ELSE TruncatedChunkFrom(f, p + 12 + len)

HasTruncatedChunk(f) ==
    /\ Len(f) >= 8
    /\ SubSeq(f, 1, 8) = <<137, 80, 78, 71, 13, 10, 26, 10>>
    /\ TruncatedChunkFrom(f, 8)

\* C16 (PNG truncated chunk): png_embed and png_extract fail with
\* FileError on a stream holding a chunk, IDAT or not, whose declared
\* length runs past the end of the stream.
C16_PngTruncatedChunk ==
    (op \in {"embed", "extract"} /\ HasTruncatedChunk(input))
        => rc = STEG_FILE_ERROR

\* C17 (no silent truncation): png_embed returns success only if every
\* message bit was written into a carrier byte.
C17_NoSilentTruncation ==
    (op = "embed" /\ rc = STEG_SUCCESS) => Len(carriers) = 8 * Len(message)

\* C18 (stream position on return): when validate, get_capacity, embed or
\* extract returns, the input stream is at offset 0 or at end of stream.
C18_StreamPositionOnReturn ==
    op \in {"validate", "capacity", "embed", "extract"}
        => (pos = 0 \/ pos >= Len(input))

\* the offsets of the IDAT data bytes in file order
RECURSIVE DataOffsetsOf(_, _)
DataOffsetsOf(cs, i) ==
    IF i > Len(cs) THEN <<>>
    ELSE (IF cs[i].type = <<73, 68, 65, 84>>
          THEN [k \in 1..cs[i].len |-> cs[i].start + 8 + k - 1]
          ELSE <<>>) \o DataOffsetsOf(cs, i + 1)

IdatOffsetSeq(f) == DataOffsetsOf(ChunkLayout(f, 8), 1)

\* C19 (embedded bit stream): after png_embed of m into a well-formed PNG
\* with at least 8*(len(m)+1) IDAT data bytes, the LSB of carrier byte
\* 8*i+k is bit k of the i-th byte of m followed by a zero byte, for i in
\* 0..len(m) and k in 0..7.
C19_EmbeddedBitstream ==
    (/\ op = "embed"
     /\ IsWellFormedPng(input)
     /\ Len(IdatOffsetSeq(input)) >= 8 * (Len(message) + 1))
        => /\ rc = STEG_SUCCESS
           /\ LET terminated == Append(message, 0)
                  offs == IdatOffsetSeq(input)
              IN  \A i \in 0..Len(message), k \in 0..7 :
                      output[offs[8 * i + k + 1] + 1] % 2
                          = (terminated[i + 1] \div Pow2(k)) % 2

\* TRUE when the i-th group (from 0) of 8 carrier bytes has an LSB set
GroupNonZero(f, offs, i) == \E k \in 1..8 : f[offs[8 * i + k] + 1] % 2 = 1

\* number of leading groups with an LSB set, when an all-zero group follows
\* them; -1 when the carrier holds no all-zero group
EncodedLength(f, offs) ==
    LET zeros == {i \in 0..((Len(offs) \div 8) - 1) : ~GroupNonZero(f, offs, i)}
    IN  IF zeros = {} THEN -1 ELSE CHOOSE i \in zeros : \A j \in zeros : i <= j

\* C20 (terminator detection): png_extract on a PNG whose single IDAT chunk
\* encodes n non-zero bytes followed by a zero byte, with room for them in
\* the buffer, succeeds with a result of n bytes.
C20_TerminatorDetection ==
    (/\ op = "roundtrip"
     /\ IsWellFormedPng(output)
     /\ Cardinality({i \in 1..Len(ChunkLayout(output, 8)) :
                        ChunkLayout(output, 8)[i].type = <<73, 68, 65, 84>>}) = 1
     /\ EncodedLength(output, IdatOffsetSeq(output)) >= 0
     /\ EncodedLength(output, IdatOffsetSeq(output)) + 2 <= max_len)
        => /\ rc = STEG_SUCCESS
           /\ Len(CString(buffer)) = EncodedLength(output, IdatOffsetSeq(output))

(***************************************************************************)
(* Bit order of extraction and the walk of jpeg_extract                    *)
(***************************************************************************)
\* C21 (extract bit order): png_extract assembles each output byte
\* least-significant bit first: of the 8 carrier LSBs read for the first
\* output byte, the k-th one (k = 0..7) is bit k of that byte.
C21_ExtractBitOrder ==
    (op = "extract" /\ rc = STEG_SUCCESS /\ Len(carriers) >= 8 /\ Len(buffer) >= 1)
        => buffer[1] = (input[carriers[1] + 1] % 2)
                     + (input[carriers[2] + 1] % 2) * 2
                     + (input[carriers[3] + 1] % 2) * 4
                     + (input[carriers[4] + 1] % 2) * 8
                     + (input[carriers[5] + 1] % 2) * 16
                     + (input[carriers[6] + 1] % 2) * 32
                     + (input[carriers[7] + 1] % 2) * 64
                     + (input[carriers[8] + 1] % 2) * 128

\* a message long enough for jpeg_embed to use every carrier byte of f
FillingMessage(f) == [i \in 1..((Len(f) \div 8) + 1) |-> 65]

\* C22 (JPEG extract mirrors embed): the offsets whose LSBs jpeg_extract
\* reads, for a buffer of at least 2 bytes, are the offsets jpeg_embed
\* overwrites for a message that uses them all, from the first one on, as
\* far as the extraction goes (8 of them, or all when there are fewer).
C22_JpegExtractMirrorsEmbed ==
    (op = "extract" /\ max_len >= 2)
        => LET writable == jpeg_embed(input, FillingMessage(input)).car
           IN  carriers = SubSeq(writable, 1, Min(8, Len(writable)))

(***************************************************************************)
(* JPEG streams whose scan data is longer than one read of                 *)
(* sizeof(buffer) bytes (formats.c 358, 410): the scan loop of jpeg_embed  *)
(* sees them block by block                                                *)
(***************************************************************************)
\* scan lengths that put the closing marker just before, across and just
\* after the end of the first block
BlockScanLens == (BUFFER_SIZE - 2)..(BUFFER_SIZE + 1)

BlockJpegs ==
    { JpegFile("bare", Pixels(pat, n)) :
        pat \in {<<0>>, <<165, 60, 127>>}, n \in BlockScanLens }

\* messages of more than sizeof(buffer) bits, within MAX_MESSAGE_LENGTH
LongMessages ==
    { [i \in 1..(BUFFER_SIZE \div 8) |-> 65],
      [i \in 1..((BUFFER_SIZE \div 8) + 1) |-> 178] }

InitJPEGBlocks == InitWith(BlockJpegs)

JpegEmbedLong ==
    /\ StreamOpen
    /\ \E m \in LongMessages :
        LET r == jpeg_embed(input, m)
        IN  /\ op' = "embed"
            /\ message' = m
            /\ rc' = r.rc
            /\ pos' = r.pos
            /\ output' = r.out
            /\ carriers' = r.car
            /\ buffer' = <<>> /\ max_len' = 0 /\ capacity' = 0
            /\ UNCHANGED idleVars

NextJPEGBlocks ==
    \/ JpegValidate
    \/ JpegGetCapacity
    \/ JpegEmbed
    \/ JpegEmbedLong
    \/ JpegExtract
    \/ JpegExtractFromOutput

SpecJPEGBlocks == InitJPEGBlocks /\ [][NextJPEGBlocks]_vars

\* C23 (JPEG embed frame): after a successful jpeg_embed of a well-formed
\* JPEG the output has the length of the source, and every byte that differs
\* from the source is a scan-data byte strictly before the first marker
\* boundary after the SOS header and differs in its LSB only; this holds
\* also when the scan data is streamed in more than one block.
C23_JpegEmbedFrame ==
    (op = "embed" /\ rc = STEG_SUCCESS /\ IsWellFormedJpeg(input))
        => /\ Len(output) = Len(input)
           /\ \A i \in 1..Len(input) :
                output[i] # input[i]
                    => /\ ScanStart(input) <= i - 1
                       /\ i - 1 < ScanEnd(input)
                       /\ output[i] \div 2 = input[i] \div 2

(***************************************************************************)
(* Capacity against the traversal of embed_message                         *)
(***************************************************************************)
\* C24 (BMP capacity matches traversal): for a valid BMP and a message with
\* len(m)+1 within the capacity calculate_message_capacity reports,
\* embed_message does not run into the end of the input: it returns success
\* and the 8*(len(m)+1) carrier bytes it used lie inside the file, after
\* the 54-byte header.
C24_BmpCapacityMatchesTraversal ==
    (op = "embed" /\ IsValidBmp(input) /\ Len(message) + 1 <= capacity)
        => /\ rc = STEG_SUCCESS
           /\ Len(carriers) = 8 * (Len(message) + 1)
           /\ \A j \in 1..Len(carriers) :
                BMP_HEADER_SIZE <= carriers[j] /\ carriers[j] < Len(input)

\* a message that fills the capacity exactly, its last carrier byte being
\* the last byte of the file
C24_Witness ==
    /\ op = "embed"
    /\ IsValidBmp(input)
    /\ Len(message) >= 1
    /\ Len(message) + 1 = capacity
    /\ rc = STEG_SUCCESS
    /\ carriers # <<>>
    /\ carriers[Len(carriers)] = Len(input) - 1

(***************************************************************************)
(* The capacity formula against the fields the first chunk declares        *)
(***************************************************************************)
\* the capacity the formula gives for the declared width w, height h, bit
\* depth d and color type t, clamped to [10, 1000000]
DeclaredCapacity(w, h, d, t) ==
    LET raw == CASE t = 0 -> (w * h * d) \div 8
                 [] t = 2 -> (w * h * 3 * d) \div 8
                 [] t = 3 -> (w * h) \div 8 + 256
                 [] t = 4 -> (w * h * 2 * d) \div 8
                 [] t = 6 -> (w * h * 4 * d) \div 8
                 [] OTHER -> (w * h * 3) \div 8
    IN  Max(PNG_MIN_CAPACITY, Min(PNG_MAX_CAPACITY, raw))

\* C25 (PNG capacity formula): for a stream whose first chunk is an IHDR
\* declaring width w and height h (here below 256, so that no product
\* overflows), bit depth d and color type t, png_get_capacity returns the
\* value of the per-color-type formula on w, h, d, t, clamped.
C25_PngCapacityFormula ==
    (/\ op = "capacity"
     /\ Len(input) >= PNG_SIGNATURE_SIZE + IHDR_READ_SIZE
     /\ SubSeq(input, 13, 16) = IHDR
     /\ SubSeq(input, 17, 19) = <<0, 0, 0>>
     /\ SubSeq(input, 21, 23) = <<0, 0, 0>>)
        => capacity = DeclaredCapacity(input[20], input[24], input[25], input[26])

(***************************************************************************)
(* Marker boundaries of the output of jpeg_embed                           *)
(***************************************************************************)
\* offsets of f at which 0xFF is followed by a non-zero byte
MarkerOffsets(f) == {o \in 0..(Len(f) - 2) : MarkerAt(f, o)}

\* C26 (JPEG embed preserves marker structure): after a successful
\* jpeg_embed of a well-formed JPEG, the offsets at which 0xFF is followed
\* by a non-zero byte are the same in the output as in the source.
C26_JpegMarkerStructure ==
    (op = "embed" /\ rc = STEG_SUCCESS /\ IsWellFormedJpeg(input))
        => MarkerOffsets(output) = MarkerOffsets(input)

(***************************************************************************)
(* Chunk alignment of png_extract                                          *)
(***************************************************************************)
\* offsets at which a chunk of f starts
ChunkStarts(f) ==
    LET cs == ChunkLayout(f, PNG_SIGNATURE_SIZE)
    IN  {cs[i].start : i \in 1..Len(cs)}

\* C27 (PNG extract chunk alignment): on a well-formed PNG every 8-byte
\* chunk header png_extract reads starts at a chunk boundary, also after an
\* IDAT chunk whose data it has passed over, and when the walk reaches the
\* end of the chunks it has read the header of the IEND chunk.
C27_PngExtractChunkAlignment ==
    (op = "extract" /\ IsWellFormedPng(input))
        => LET reads == PngExtractHeaderReads(input, max_len, PNG_SIGNATURE_SIZE,
                                              <<>>, <<>>, MaxChunkSteps)
           IN  \A j \in 1..Len(reads) : reads[j] \in ChunkStarts(input)

(***************************************************************************)
(* Bound of the caller's buffer                                            *)
(***************************************************************************)
\* C28 (extract buffer bound): an extract operation called with max_len
\* writes only to message[0 .. max_len-1] (buffer holds the bytes written,
\* from index 0 on), and when it returns success one of the bytes written
\* is the terminating zero; this for every max_len, 0 and 1 included.
C28_ExtractBufferBound ==
    op = "extract"
        => /\ Len(buffer) <= max_len
           /\ rc = STEG_SUCCESS => \E i \in 1..Len(buffer) : buffer[i] = 0

(***************************************************************************)
(* Refused BMP embeds                                                      *)
(***************************************************************************)
\* TRUE when embed_message on stream f with message m returns before its
\* first write: the header validation fails, or the message does not fit
RefusesEmbed(f, m) ==
    \/ read_bmp_header(f).rc # STEG_SUCCESS
    \/ Len(m) + 1 > BmpCapacity(f)

\* a refused embed_message has written no byte to the output stream
EmbedRefusalWritesNothing ==
    (op = "embed" /\ RefusesEmbed(input, message))
        => /\ rc \in {STEG_INVALID_BMP, STEG_FILE_ERROR, STEG_INSUFFICIENT_CAPACITY}
           /\ output = <<>>

\* C29 (refused BMP embed writes nothing): when the embed run of the CLI
\* ends with InvalidFormat or FileError from the header validation, or with
\* InsufficientCapacity, no byte was written to the output, the output file
\* was not created or truncated, and the source file holds what it held.
C29_RefusedEmbedWritesNothing ==
    (/\ op = "cli-embed"
     /\ rc \in {STEG_INVALID_BMP, STEG_FILE_ERROR, STEG_INSUFFICIENT_CAPACITY}
     /\ carriers = <<>>)
        => /\ output = <<>>
           /\ ~output_opened
           /\ source = input

\* the same for runs whose output path is not the input path
C29_DistinctPaths ==
    (/\ op = "cli-embed"
     /\ input_file # output_file
     /\ rc \in {STEG_INVALID_BMP, STEG_FILE_ERROR, STEG_INSUFFICIENT_CAPACITY})
        => /\ output = <<>>
           /\ ~output_opened
           /\ source = input

(***************************************************************************)
(* png_extract run one pass of its chunk loop at a time                    *)
(***************************************************************************)
\* png_extract is entered: rewind, fseek(input, 8, SEEK_SET), message_pos = 0
PngExtractStart ==
    /\ StreamOpen
    /\ \E ml \in MaxLens :
        /\ op' = "extracting"
        /\ max_len' = ml
        /\ pos' = PNG_SIGNATURE_SIZE
        /\ buffer' = <<>>
        /\ carriers' = <<>>
        /\ output' = <<>> /\ message' = <<>> /\ capacity' = 0
        /\ passes' = 0
        /\ UNCHANGED <<rc, fileVars>>

\* one pass of the chunk loop; the last one returns
PngExtractIterate ==
    /\ op = "extracting"
    /\ LET it == PngExtractIteration(input, max_len, pos, buffer, carriers)
       IN  /\ op' = IF it.done THEN "extract" ELSE "extracting"
           /\ rc' = IF it.done THEN it.rc ELSE rc
           /\ pos' = it.pos
           /\ buffer' = it.buf
           /\ carriers' = it.car
           /\ passes' = (passes + 1) % 2
           /\ UNCHANGED <<max_len, output, message, capacity, fileVars>>

NextPNGRun ==
    \/ PngExtractStart
    \/ PngExtractIterate

\* a running png_extract keeps running: the loop always takes its next pass
SpecPNGRun == InitPNG /\ [][NextPNGRun]_vars /\ WF_vars(PngExtractIterate)

\* C30 (termination): every codec operation terminates on every finite
\* input, malformed ones included; here, every png_extract that was entered
\* returns.
C30_Termination == (op = "extracting") ~> (op = "extract")

\* on a well-formed PNG every png_extract that was entered returns
C30_ForwardSeeksTerminate ==
    (op = "extracting" /\ IsWellFormedPng(input)) ~> (op = "extract")

====
